---------------------------- MODULE Spec2Model ----------------------------
(***************************************************************************)
(* A state-machine model of the daemon-facing control plane of             *)
(* opensnitch-tui: the prompt coordinator (AskRule / ResolvePrompt), the   *)
(* session registry (registerSession / sendNotification / dispatch), the   *)
(* rule decision engine (pure functions) and the parts of the state store  *)
(* they read and write.                                                    *)
(*                                                                         *)
(* Go strings are modelled as sequences of one-character strings so that   *)
(* strings.Join, strings.TrimSpace and fmt.Sprintf("%d") are computed and  *)
(* not assumed.  A possibly-nil pointer is a sequence of length 0 or 1.    *)
(* Enumerated Go string constants that are only ever compared with each    *)
(* other (actions, durations, targets, operands, node ids) are TLA+        *)
(* strings.  Time is an integer clock; one unit stands for 10 seconds, so  *)
(* that promptTimeout is 3 and errorDisplayTTL is 1.  Two reads of the     *)
(* clock that no Tick separates return the same value.                     *)
(***************************************************************************)
EXTENDS Integers, Sequences, FiniteSets, TLC

(***************************************************************************)
(* Bounds of the model                                                     *)
(***************************************************************************)
\* last clock value the model reaches
MaxClock == 5
\* number of AskRule invocations
MaxAskCalls == 2
\* number of ResolvePrompt invocations
MaxResolveCalls == 2
\* number of Notifications streams the daemons open
MaxStreams == 3
\* number of notifications the server creates
MaxNotify == 9
\* number of goroutines that call EnableRule / DisableRule / DeleteRule
MaxMutators == 2
\* number of AddAlert calls of a behaviour, past the capacity of the list
MaxAlertCalls == 120
\* number of Store.Subscribe calls, and of Close calls on one subscription
MaxSubs == 2
MaxCloses == 2

(***************************************************************************)
(* Program constants                                                       *)
(***************************************************************************)
\* server.go:75  promptTimeout = 30 * time.Second, in units of 10 s
promptTimeout == 3
\* store.go:20   errorDisplayTTL = 10 * time.Second, in units of 10 s
errorDisplayTTL == 1
\* server.go:346  make(chan *pb.Notification, 8)
sendCapacity == 8
\* config.go:99  DefaultPromptTimeoutSeconds = 30, in units of 10 s
DefaultPromptTimeout == 3

Nodes == {"n1", "n2"}

(***************************************************************************)
(* Strings                                                                 *)
(***************************************************************************)
EmptyStr == <<>>
Space == {" ", "\t", "\n"}

\* strings.Join(elems, sep)
RECURSIVE Join(_, _)
Join(elems, sep) ==
    IF Len(elems) = 0 THEN EmptyStr
    ELSE IF Len(elems) = 1 THEN elems[1]
    ELSE elems[1] \o sep \o Join(Tail(elems), sep)

RECURSIVE TrimLeft(_)
TrimLeft(s) ==
    IF Len(s) > 0 /\ s[1] \in Space THEN TrimLeft(Tail(s)) ELSE s

RECURSIVE TrimRight(_)
TrimRight(s) ==
    IF Len(s) > 0 /\ s[Len(s)] \in Space
    THEN TrimRight(SubSeq(s, 1, Len(s) - 1)) ELSE s

\* strings.TrimSpace(s)
TrimSpace(s) == TrimRight(TrimLeft(s))

DigitChars == <<"0", "1", "2", "3", "4", "5", "6", "7", "8", "9">>

\* fmt.Sprintf("%d", n) for an unsigned n
RECURSIVE FormatUint(_)
FormatUint(n) ==
    IF n < 10 THEN <<DigitChars[n + 1]>>
    ELSE FormatUint(n \div 10) \o <<DigitChars[(n % 10) + 1]>>

\* fallbackString(value, def)
fallbackString(value, def) == IF value = EmptyStr THEN def ELSE value

(***************************************************************************)
(* controller.PromptAction / PromptDuration / PromptTarget and operands    *)
(***************************************************************************)
PromptActionAllow == "allow"
PromptActionDeny == "deny"
PromptActionReject == "reject"
PromptDurationOnce == "once"
PromptDurationUntilRestart == "until restart"
PromptDurationAlways == "always"
PromptTargetProcessPath == "process.path"
PromptTargetProcessCmd == "process.command"
PromptTargetProcessID == "process.id"
PromptTargetUserID == "user.id"
PromptTargetDestinationIP == "dest.ip"
PromptTargetDestinationHost == "dest.host"
PromptTargetDestinationPort == "dest.port"

operandProcessPath == "process.path"
operandProcessCmd == "process.command"
operandProcessID == "process.id"
operandUserID == "user.id"
operandDestIP == "dest.ip"
operandDestHost == "dest.host"
operandDestPort == "dest.port"
ruleTypeSimple == "simple"

NoErr == <<>>

(***************************************************************************)
(* Rule decision engine (pure functions of server.go)                      *)
(***************************************************************************)
\* A normalisation that lets every action through: C21 must reject it.
normalizePromptAction_AsGiven(action) == action

normalizePromptAction(action) ==
    IF action \in {PromptActionAllow, PromptActionDeny, PromptActionReject}
    THEN action ELSE PromptActionDeny

normalizePromptDuration(duration) ==
    IF duration \in {PromptDurationOnce, PromptDurationUntilRestart,
                     PromptDurationAlways}
    THEN duration ELSE PromptDurationOnce

targetAvailable(conn, target) ==
    CASE target = PromptTargetProcessPath -> conn.ProcessPath # EmptyStr
      [] target = PromptTargetProcessCmd ->
            Len(conn.ProcessArgs) > 0 \/ conn.ProcessPath # EmptyStr
      [] target = PromptTargetDestinationHost -> conn.DstHost # EmptyStr
      [] target = PromptTargetDestinationIP -> conn.DstIP # EmptyStr
      [] target = PromptTargetDestinationPort -> conn.DstPort # 0
      [] target \in {PromptTargetProcessID, PromptTargetUserID} -> TRUE
      [] OTHER -> FALSE

\* A choice that looks at the address before the host: C22 must reject it.
bestAvailableTarget_AddressFirst(conn) ==
    CASE conn.ProcessPath # EmptyStr -> PromptTargetProcessPath
      [] conn.ProcessPath = EmptyStr /\ Len(conn.ProcessArgs) > 0 ->
            PromptTargetProcessCmd
      [] OTHER ->
            IF conn.DstIP # EmptyStr THEN PromptTargetDestinationIP
            ELSE IF conn.DstHost # EmptyStr THEN PromptTargetDestinationHost
            ELSE IF conn.DstPort # 0 THEN PromptTargetDestinationPort
            ELSE PromptTargetProcessID

bestAvailableTarget(conn) ==
    CASE conn.ProcessPath # EmptyStr -> PromptTargetProcessPath
      [] conn.ProcessPath = EmptyStr /\ Len(conn.ProcessArgs) > 0 ->
            PromptTargetProcessCmd
      [] OTHER ->
            IF conn.DstHost # EmptyStr THEN PromptTargetDestinationHost
            ELSE IF conn.DstIP # EmptyStr THEN PromptTargetDestinationIP
            ELSE IF conn.DstPort # 0 THEN PromptTargetDestinationPort
            ELSE PromptTargetProcessID

simpleOperator(operand, data) ==
    [Type |-> ruleTypeSimple, Operand |-> operand, Data |-> data]

OpOk(operand, data) == [op |-> <<simpleOperator(operand, data)>>, err |-> NoErr]
OpErr(msg) == [op |-> <<>>, err |-> msg]

operatorForTarget(conn, target) ==
    CASE target = PromptTargetProcessPath ->
            IF conn.ProcessPath = EmptyStr
            THEN OpErr(<<"process path unavailable">>)
            ELSE OpOk(operandProcessPath, conn.ProcessPath)
      [] target = PromptTargetProcessCmd ->
            LET cmdLine == TrimSpace(Join(conn.ProcessArgs, <<" ">>)) IN
            IF cmdLine = EmptyStr
            THEN IF conn.ProcessPath = EmptyStr
                 THEN OpErr(<<"command line unavailable">>)
                 ELSE OpOk(operandProcessPath, conn.ProcessPath)
            ELSE OpOk(operandProcessCmd, cmdLine)
      [] target = PromptTargetProcessID ->
            OpOk(operandProcessID, FormatUint(conn.ProcessID))
      [] target = PromptTargetUserID ->
            OpOk(operandUserID, FormatUint(conn.UserID))
      [] target = PromptTargetDestinationIP ->
            IF conn.DstIP = EmptyStr
            THEN OpErr(<<"destination ip unavailable">>)
            ELSE OpOk(operandDestIP, conn.DstIP)
      [] target = PromptTargetDestinationHost ->
            IF conn.DstHost = EmptyStr
            THEN OpErr(<<"destination host unavailable">>)
            ELSE OpOk(operandDestHost, conn.DstHost)
      [] target = PromptTargetDestinationPort ->
            IF conn.DstPort = 0
            THEN OpErr(<<"destination port unavailable">>)
            ELSE OpOk(operandDestPort, FormatUint(conn.DstPort))
      [] OTHER -> OpErr(<<"unsupported target", target>>)

\* buildRuleFromDecision(prompt, decision), evaluated at clock value t.
\* The result is the pair (rule, err) of the Go function.
buildRuleFromDecision(prompt, decision, t) ==
    LET action == normalizePromptAction(decision.Action)
        duration == normalizePromptDuration(decision.Duration)
        target == IF decision.Target = "" THEN bestAvailableTarget(prompt.Connection)
                  ELSE decision.Target
        res == operatorForTarget(prompt.Connection, target)
    IN IF res.err # NoErr THEN [rule |-> <<>>, err |-> res.err]
       ELSE [rule |-> << [Created |-> t,
                          Name |-> <<"u", "s", "e", "r", "-">> \o FormatUint(t),
                          Enabled |-> TRUE,
                          Action |-> action,
                          Duration |-> duration,
                          Operator |-> res.op[1]] >>,
             err |-> NoErr]

\* A decision that takes the configured target whether or not the connection
\* has it: C30 must reject it.
defaultPromptDecision_NoFallback(prompt, st) ==
    LET action == IF st.DefaultPromptAction # "" THEN st.DefaultPromptAction
                  ELSE PromptActionDeny
        duration == IF st.DefaultPromptDuration # "" THEN st.DefaultPromptDuration
                    ELSE PromptDurationOnce
        preferred == st.DefaultPromptTarget
        target == IF preferred # "" THEN preferred
                  ELSE bestAvailableTarget(prompt.Connection)
    IN [PromptID |-> prompt.ID,
        Action |-> normalizePromptAction(action),
        Duration |-> normalizePromptDuration(duration),
        Target |-> target]

\* Server.defaultPromptDecision(prompt) for the Settings of a store snapshot
defaultPromptDecision(prompt, st) ==
    LET action == IF st.DefaultPromptAction # "" THEN st.DefaultPromptAction
                  ELSE PromptActionDeny
        duration == IF st.DefaultPromptDuration # "" THEN st.DefaultPromptDuration
                    ELSE PromptDurationOnce
        preferred == st.DefaultPromptTarget
        target == IF preferred # "" /\ targetAvailable(prompt.Connection, preferred)
                  THEN preferred ELSE bestAvailableTarget(prompt.Connection)
    IN [PromptID |-> prompt.ID,
        Action |-> normalizePromptAction(action),
        Duration |-> normalizePromptDuration(duration),
        Target |-> target]

\* displayConnectionLabel(conn)
displayConnectionLabel(conn) ==
    LET dest == IF conn.DstHost = EmptyStr THEN conn.DstIP ELSE conn.DstHost
    IN << fallbackString(conn.ProcessPath, <<"u", "n", "k", "n", "o", "w", "n">>),
          <<"-", ">">>,
          fallbackString(dest, <<"d", "e", "s", "t", "i", "n", "a", "t", "i", "o", "n">>),
          <<":">>,
          FormatUint(conn.DstPort) >>

\* convertRule(rule, nodeID): pb.Rule to state.Rule
convertRule(rule, nodeID) ==
    [NodeID |-> nodeID,
     Name |-> rule.Name,
     Action |-> rule.Action,
     Duration |-> rule.Duration,
     Enabled |-> rule.Enabled,
     Operator |-> rule.Operator,
     CreatedAt |-> IF rule.Created > 0 THEN rule.Created ELSE 0]

\* serializeRule(rule): state.Rule to pb.Rule
serializeRule(rule) ==
    [Created |-> rule.CreatedAt,
     Name |-> rule.Name,
     Enabled |-> rule.Enabled,
     Action |-> rule.Action,
     Duration |-> rule.Duration,
     Operator |-> rule.Operator]


(***************************************************************************)
(* State                                                                   *)
(***************************************************************************)
VARIABLES
    now,          \* the wall clock read by time.Now()
    nodes,        \* Store.snapshot.Nodes
    rules,        \* Store.snapshot.Rules: node id -> list of state.Rule
    stats,        \* Store.snapshot.Stats
    prompts,      \* Store.snapshot.Prompts
    lastError,    \* Store.snapshot.LastError
    lastErrorAt,  \* Store.snapshot.LastErrorAt
    settings,     \* Store.snapshot.Settings
    errTimers,    \* issue times of the running expireError goroutines
    pending,      \* Server.prompts: prompt id -> promptRequest
    ask,          \* the AskRule invocations
    res,          \* the ResolvePrompt invocations
    sessions,     \* Server.sessions: node id -> *session
    sessObj,      \* the session objects ever allocated
    notifySeqID,  \* Server.notifySeqID
    mut,          \* the EnableRule / DisableRule / DeleteRule invocations
    streams,      \* the Notifications invocations and their dispatch goroutines
    crashed,      \* a goroutine panicked: the process is gone
    alerts,       \* Store.snapshot.Alerts
    alertsAdded,  \* the number of AddAlert calls made so far
    subs,         \* Store.subs: the subscriptions that are registered
    subObj,       \* the Subscription objects ever created
    watch,        \* the goroutines that consume and close subscriptions
    heap,         \* the backing arrays and maps of the slices and maps in use
    live,         \* the slices and maps of Store.snapshot, as references
    held,         \* the values callers hold: Snapshot() results and arguments
    probe         \* a call of a pure function: its arguments and its result

storeVars == <<nodes, rules, stats, prompts, lastError, lastErrorAt, settings, errTimers>>
promptVars == <<pending, ask, res>>
sessVars == <<sessions, sessObj, notifySeqID, mut, streams>>
subVars == <<subs, subObj, watch>>
heapVars == <<heap, live, held>>
extVars == <<alerts, alertsAdded, subVars, heapVars, probe>>
vars == <<now, storeVars, promptVars, sessVars, crashed, extVars>>

ZeroTime == 0
StartTime == 1

AskCalls == 1 .. MaxAskCalls
ResolveCalls == 1 .. MaxResolveCalls

\* NewStore: no alerts
InitAlerts == alerts = <<>> /\ alertsAdded = 0

\* NewStore: no subscriptions
InitSubVars == subs = {} /\ subObj = <<>> /\ watch = <<>>

\* a cell of a backing array or of a map: the scalar fields of the element
\* (val) and the slice it holds (kid: an address in heap, 0 for nil).  A Rule
\* and a RuleOperator hold Operator.Children, a Prompt holds
\* Connection.ProcessArgs, Stats holds TopDestHosts, an entry of the Rules map
\* holds the node's rule list; a Node holds nothing.
Cell(val, kid) == [val |-> val, kid |-> kid]

\* NewStore: Nodes and Prompts are empty slices, Rules is an empty map (the one
\* object of the heap); no caller holds anything
InitHeapVars ==
    /\ heap = << <<>> >>
    /\ live = [Nodes |-> 0, Rules |-> 1, Stats |-> Cell("", 0), Prompts |-> 0]
    /\ held = <<>>

\* no pure function is being exercised
InitProbe == probe = <<>>

InitExt == InitAlerts /\ InitSubVars /\ InitHeapVars /\ InitProbe

(***************************************************************************)
(* State store (store.go)                                                  *)
(***************************************************************************)
\* s.snapshot.Rules[nodeID]: a missing key reads as the nil slice
RulesOf(rs, nodeID) == IF nodeID \in DOMAIN rs THEN rs[nodeID] ELSE <<>>

\* A syncRuleCountLocked that counts for whatever node Stats tracks: C34 must
\* reject it.
syncRuleCountLocked_AnyNode(st, rs, nodeID) ==
    IF nodeID = "" THEN st
    ELSE [st EXCEPT !.Rules = Len(RulesOf(rs, nodeID))]

\* Store.syncRuleCountLocked(nodeID), given the rules after the mutation
syncRuleCountLocked(st, rs, nodeID) ==
    IF nodeID = "" THEN st
    ELSE IF st.NodeID # nodeID THEN st
    ELSE [st EXCEPT !.Rules = Len(RulesOf(rs, nodeID))]

\* Store.AddRule(nodeID, rule): the rules map after the append
AddRule(rs, nodeID, rule) ==
    (nodeID :> Append(RulesOf(rs, nodeID), [rule EXCEPT !.NodeID = nodeID])) @@ rs

\* index of the first prompt with this ID, 0 when there is none
PromptIndex(ps, id) ==
    IF \E i \in 1 .. Len(ps) : ps[i].ID = id
    THEN CHOOSE i \in 1 .. Len(ps) :
            ps[i].ID = id /\ \A j \in 1 .. (i - 1) : ps[j].ID # id
    ELSE 0

RemoveAt(seq, i) == SubSeq(seq, 1, i - 1) \o SubSeq(seq, i + 1, Len(seq))

\* Store.RemovePrompt(id): the prompt list afterwards
RemovePrompt(ps, id) ==
    IF PromptIndex(ps, id) = 0 THEN ps ELSE RemoveAt(ps, PromptIndex(ps, id))

\* Store.AddPrompt(prompt): the stored prompt
AddPrompt(prompt) ==
    LET p1 == IF prompt.RequestedAt = ZeroTime
              THEN [prompt EXCEPT !.RequestedAt = now] ELSE prompt
        timeout == IF settings.PromptTimeout <= 0 THEN DefaultPromptTimeout
                   ELSE settings.PromptTimeout
    IN IF p1.ExpiresAt = ZeroTime
       THEN [p1 EXCEPT !.ExpiresAt = p1.RequestedAt + timeout]
       ELSE p1

\* Server.nodeName(id)
nodeName(id) ==
    IF \E i \in 1 .. Len(nodes) : nodes[i].ID = id
    THEN LET i == CHOOSE k \in 1 .. Len(nodes) :
                     nodes[k].ID = id /\ \A j \in 1 .. (k - 1) : nodes[j].ID # id
         IN IF nodes[i].Name # "" THEN nodes[i].Name ELSE nodes[i].Address
    ELSE id

\* An expireError that clears whatever error is displayed: C33 must reject it.
ExpireError_AnyError(t) ==
    /\ ~crashed
    /\ t \in errTimers
    /\ now >= t + errorDisplayTTL
    /\ errTimers' = errTimers \ {t}
    /\ IF lastError # EmptyStr
       THEN lastError' = EmptyStr /\ lastErrorAt' = ZeroTime
       ELSE UNCHANGED <<lastError, lastErrorAt>>
    /\ UNCHANGED <<now, nodes, rules, stats, prompts, settings, promptVars,
                   sessVars, crashed, extVars>>

\* Store.expireError(issuedAt), once its timer has fired
ExpireError(t) ==
    /\ ~crashed
    /\ t \in errTimers
    /\ now >= t + errorDisplayTTL
    /\ errTimers' = errTimers \ {t}
    /\ IF lastError # EmptyStr /\ lastErrorAt = t
       THEN lastError' = EmptyStr /\ lastErrorAt' = ZeroTime
       ELSE UNCHANGED <<lastError, lastErrorAt>>
    /\ UNCHANGED <<now, nodes, rules, stats, prompts, settings, promptVars,
                   sessVars, crashed, extVars>>

(***************************************************************************)
(* Prompt coordinator (server.go: AskRule, ResolvePrompt)                  *)
(***************************************************************************)
NoConn == [ProcessPath |-> EmptyStr, ProcessArgs |-> <<>>, DstHost |-> EmptyStr,
           DstIP |-> EmptyStr, DstPort |-> 0, ProcessID |-> 0, UserID |-> 0]
NoPrompt == [ID |-> <<>>, NodeID |-> "", NodeName |-> "", Connection |-> NoConn,
             RequestedAt |-> ZeroTime, ExpiresAt |-> ZeroTime]
NoDecision == [PromptID |-> <<>>, Action |-> "", Duration |-> "", Target |-> ""]

IdleAsk == [pc |-> "idle", prompt |-> NoPrompt, response |-> <<>>, timerAt |-> 0,
            ctxDone |-> FALSE, via |-> "", rule |-> <<>>, err |-> NoErr]
IdleResolve == [pc |-> "idle", decision |-> NoDecision, req |-> 0, rule |-> <<>>,
                err |-> NoErr]

\* Server.registerPrompt(req)
registerPrompt(id, c) == (id :> c) @@ pending

\* Server.unregisterPrompt(id)
unregisterPrompt(id) == [k \in (DOMAIN pending) \ {id} |-> pending[k]]

\* AskRule, lines 220-237: build the prompt and register the request
AskRuleRegister(c, nodeID, conn) ==
    /\ ~crashed
    /\ ask[c].pc = "idle"
    /\ now + promptTimeout <= MaxClock
    /\ LET prompt == [ID |-> <<nodeID, now>>,
                      NodeID |-> nodeID,
                      NodeName |-> nodeName(nodeID),
                      Connection |-> conn,
                      RequestedAt |-> now,
                      ExpiresAt |-> now + promptTimeout]
       IN /\ ask' = [ask EXCEPT ![c] = [@ EXCEPT !.pc = "registered",
                                                 !.prompt = prompt]]
          /\ pending' = registerPrompt(prompt.ID, c)
    /\ UNCHANGED <<now, storeVars, res, sessVars, crashed, extVars>>

\* A coordinator whose timer is armed one clock unit late: C7 must reject it.
AskRuleAddPrompt_LateTimer(c) ==
    /\ ~crashed
    /\ ask[c].pc = "registered"
    /\ prompts' = Append(prompts, AddPrompt(ask[c].prompt))
    /\ ask' = [ask EXCEPT ![c] = [@ EXCEPT !.pc = "waiting",
                                           !.timerAt = now + promptTimeout + 1]]
    /\ UNCHANGED <<now, nodes, rules, stats, lastError, lastErrorAt, settings,
                   errTimers, pending, res, sessVars, crashed, extVars>>

\* AskRule, lines 239-241: store the prompt and start the timer
AskRuleAddPrompt(c) ==
    /\ ~crashed
    /\ ask[c].pc = "registered"
    /\ prompts' = Append(prompts, AddPrompt(ask[c].prompt))
    /\ ask' = [ask EXCEPT ![c] = [@ EXCEPT !.pc = "waiting",
                                           !.timerAt = now + promptTimeout]]
    /\ UNCHANGED <<now, nodes, rules, stats, lastError, lastErrorAt, settings,
                   errTimers, pending, res, sessVars, crashed, extVars>>

\* AskRule, lines 244-246: the response slot was filled
AskRuleResponse(c) ==
    /\ ~crashed
    /\ ask[c].pc = "waiting"
    /\ Len(ask[c].response) > 0
    /\ prompts' = RemovePrompt(prompts, ask[c].prompt.ID)
    /\ ask' = [ask EXCEPT ![c] = [@ EXCEPT !.pc = "returning",
                                           !.via = "response",
                                           !.response = Tail(@),
                                           !.rule = Head(ask[c].response).rule,
                                           !.err = Head(ask[c].response).err]]
    /\ UNCHANGED <<now, nodes, rules, stats, lastError, lastErrorAt, settings,
                   errTimers, pending, res, sessVars, crashed, extVars>>

\* the message of Store.SetError in the timeout path
TimedOutMessage(conn) == <<"prompt timed out for">> \o displayConnectionLabel(conn)

\* AskRule, lines 247-252: the timer fired
AskRuleTimeout(c) ==
    /\ ~crashed
    /\ ask[c].pc = "waiting"
    /\ now >= ask[c].timerAt
    /\ prompts' = RemovePrompt(prompts, ask[c].prompt.ID)
    /\ lastError' = TimedOutMessage(ask[c].prompt.Connection)
    /\ lastErrorAt' = now
    /\ errTimers' = errTimers \cup {now}
    /\ LET decision == defaultPromptDecision(ask[c].prompt, settings)
           built == buildRuleFromDecision(ask[c].prompt, decision, now)
       IN ask' = [ask EXCEPT ![c] = [@ EXCEPT !.pc = "returning",
                                              !.via = "timer",
                                              !.rule = built.rule,
                                              !.err = built.err]]
    /\ UNCHANGED <<now, nodes, rules, stats, settings, pending, res, sessVars,
                   crashed, extVars>>

CtxCanceled == <<"context canceled">>

\* AskRule, lines 253-255: the caller's context ended
AskRuleCancelled(c) ==
    /\ ~crashed
    /\ ask[c].pc = "waiting"
    /\ ask[c].ctxDone
    /\ prompts' = RemovePrompt(prompts, ask[c].prompt.ID)
    /\ ask' = [ask EXCEPT ![c] = [@ EXCEPT !.pc = "returning",
                                           !.via = "ctx",
                                           !.rule = <<>>,
                                           !.err = CtxCanceled]]
    /\ UNCHANGED <<now, nodes, rules, stats, lastError, lastErrorAt, settings,
                   errTimers, pending, res, sessVars, crashed, extVars>>

\* AskRule's deferred calls (lines 237, 241): unregisterPrompt, timer.Stop
AskRuleReturn(c) ==
    /\ ~crashed
    /\ ask[c].pc = "returning"
    /\ pending' = unregisterPrompt(ask[c].prompt.ID)
    /\ ask' = [ask EXCEPT ![c] = [@ EXCEPT !.pc = "done"]]
    /\ UNCHANGED <<now, storeVars, res, sessVars, crashed, extVars>>

\* the daemon disconnects: the context of its pending AskRule is cancelled
CtxCancel(c) ==
    /\ ~crashed
    /\ ask[c].pc = "waiting"
    /\ ~ask[c].ctxDone
    /\ ask' = [ask EXCEPT ![c] = [@ EXCEPT !.ctxDone = TRUE]]
    /\ UNCHANGED <<now, storeVars, pending, res, sessVars, crashed, extVars>>

\* ResolvePrompt, lines 453-459: check the id and look the request up
ResolveLookup(r, decision) ==
    /\ ~crashed
    /\ res[r].pc = "idle"
    /\ IF decision.PromptID = <<>>
       THEN res' = [res EXCEPT ![r] = [@ EXCEPT !.pc = "done",
                                  !.decision = decision,
                                  !.err = <<"prompt id required">>]]
       ELSE IF decision.PromptID \notin DOMAIN pending
       THEN res' = [res EXCEPT ![r] = [@ EXCEPT !.pc = "done",
                                  !.decision = decision,
                                  !.err = <<"prompt not found">>]]
       ELSE res' = [res EXCEPT ![r] = [@ EXCEPT !.pc = "found",
                                  !.decision = decision,
                                  !.req = pending[decision.PromptID]]]
    /\ UNCHANGED <<now, storeVars, pending, ask, sessVars, crashed, extVars>>

\* A ResolvePrompt that builds the rule but never calls Store.AddRule: C3 must
\* reject it.
ResolveAddRule_NoStore(r) ==
    /\ ~crashed
    /\ res[r].pc = "found"
    /\ LET prompt == ask[res[r].req].prompt
           built == buildRuleFromDecision(prompt, res[r].decision, now)
       IN IF built.err # NoErr
          THEN res' = [res EXCEPT ![r] = [@ EXCEPT !.pc = "done",
                                                  !.err = built.err]]
          ELSE res' = [res EXCEPT ![r] = [@ EXCEPT !.pc = "added",
                                                  !.rule = built.rule]]
    /\ UNCHANGED <<now, storeVars, pending, ask, sessVars, crashed, extVars>>

\* A ResolvePrompt that gives the prompt up when the rule cannot be built:
\* C32 must reject it.
ResolveAddRule_DropsPrompt(r) ==
    /\ ~crashed
    /\ res[r].pc = "found"
    /\ LET prompt == ask[res[r].req].prompt
           built == buildRuleFromDecision(prompt, res[r].decision, now)
       IN IF built.err # NoErr
          THEN /\ res' = [res EXCEPT ![r] = [@ EXCEPT !.pc = "done",
                                                     !.err = built.err]]
               /\ prompts' = RemovePrompt(prompts, res[r].decision.PromptID)
               /\ UNCHANGED <<rules, stats>>
          ELSE /\ rules' = AddRule(rules, prompt.NodeID,
                                   convertRule(built.rule[1], prompt.NodeID))
               /\ stats' = syncRuleCountLocked(stats, rules', prompt.NodeID)
               /\ res' = [res EXCEPT ![r] = [@ EXCEPT !.pc = "added",
                                                     !.rule = built.rule]]
               /\ UNCHANGED prompts
    /\ UNCHANGED <<now, nodes, lastError, lastErrorAt, settings,
                   errTimers, pending, ask, sessVars, crashed, extVars>>

\* ResolvePrompt, lines 460-465: build the rule and add it to the store
ResolveAddRule(r) ==
    /\ ~crashed
    /\ res[r].pc = "found"
    /\ LET prompt == ask[res[r].req].prompt
           built == buildRuleFromDecision(prompt, res[r].decision, now)
       IN IF built.err # NoErr
          THEN /\ res' = [res EXCEPT ![r] = [@ EXCEPT !.pc = "done",
                                                     !.err = built.err]]
               /\ UNCHANGED <<rules, stats>>
          ELSE /\ rules' = AddRule(rules, prompt.NodeID,
                                   convertRule(built.rule[1], prompt.NodeID))
               /\ stats' = syncRuleCountLocked(stats, rules', prompt.NodeID)
               /\ res' = [res EXCEPT ![r] = [@ EXCEPT !.pc = "added",
                                                     !.rule = built.rule]]
    /\ UNCHANGED <<now, nodes, prompts, lastError, lastErrorAt, settings,
                   errTimers, pending, ask, sessVars, crashed, extVars>>

\* ResolvePrompt, lines 466-472: fill the response slot, or find it full
ResolveSend(r) ==
    /\ ~crashed
    /\ res[r].pc = "added"
    /\ LET c == res[r].req IN
       IF Len(ask[c].response) < 1
       THEN /\ ask' = [ask EXCEPT ![c] = [@ EXCEPT !.response =
                          Append(@, [rule |-> res[r].rule, err |-> NoErr])]]
            /\ prompts' = RemovePrompt(prompts, res[r].decision.PromptID)
            /\ res' = [res EXCEPT ![r] = [@ EXCEPT !.pc = "done"]]
       ELSE /\ res' = [res EXCEPT ![r] = [@ EXCEPT !.pc = "done",
                                            !.err = <<"prompt already resolved">>]]
            /\ UNCHANGED <<ask, prompts>>
    /\ UNCHANGED <<now, nodes, rules, stats, lastError, lastErrorAt, settings,
                   errTimers, pending, sessVars, crashed, extVars>>


(***************************************************************************)
(* Time                                                                    *)
(***************************************************************************)
\* A handler that is running, or that waits in a select one of whose cases
\* is ready, acts before the clock is read again: time passes only while
\* every handler is blocked.
AskBusy(c) ==
    \/ ask[c].pc \in {"registered", "returning"}
    \/ /\ ask[c].pc = "waiting"
       /\ \/ now >= ask[c].timerAt
          \/ Len(ask[c].response) > 0
          \/ ask[c].ctxDone

ResolveBusy(r) == res[r].pc \in {"found", "added"}

Tick ==
    /\ ~crashed
    /\ now < MaxClock
    /\ \A c \in AskCalls : ~AskBusy(c)
    /\ \A r \in ResolveCalls : ~ResolveBusy(r)
    /\ \A t \in errTimers : now < t + errorDisplayTTL
    /\ now' = now + 1
    /\ UNCHANGED <<storeVars, promptVars, sessVars, crashed, extVars>>

(***************************************************************************)
(* Inputs of the prompt specification                                      *)
(***************************************************************************)
CurlPath == <<"/", "c", "u", "r", "l">>
ExampleHost == <<"e", "x", ".", "c", "o", "m">>
ExampleIP == <<"1", ".", "2", ".", "3", ".", "4">>

\* a connection with a process path and a destination
ConnCurl == [NoConn EXCEPT !.ProcessPath = CurlPath, !.DstHost = ExampleHost,
                           !.DstPort = 443, !.ProcessID = 42]
\* no process path, and arguments that are present but blank
ConnBlankArgs == [NoConn EXCEPT !.ProcessArgs = << <<" ">> >>, !.DstIP = ExampleIP]

PromptConns == {ConnCurl, ConnBlankArgs}

DefaultSettings == [DefaultPromptAction |-> "deny", DefaultPromptDuration |-> "once",
                    DefaultPromptTarget |-> "process.path",
                    PromptTimeout |-> DefaultPromptTimeout]
\* one valid configuration with a timeout of 10 s, and one with the action
\* unset, a duration that is no PromptDuration, the default target and no
\* timeout
PromptSettings ==
    { [DefaultPromptAction |-> "allow", DefaultPromptDuration |-> "always",
       DefaultPromptTarget |-> "dest.ip", PromptTimeout |-> 1],
      [DefaultPromptAction |-> "", DefaultPromptDuration |-> "bogus",
       DefaultPromptTarget |-> "process.path", PromptTimeout |-> 0] }

\* what the UI may submit for a prompt
PromptChoices ==
    { [Action |-> "allow", Duration |-> "always", Target |-> "process.path"],
      [Action |-> "bogus", Duration |-> "", Target |-> "dest.ip"] }

\* the prompt ids a caller can know of: those of the requests made so far
KnownPromptIDs ==
    { ask[c].prompt.ID : c \in {k \in AskCalls : ask[k].pc \notin {"idle", "registered"}} }

ZeroStats == [NodeID |-> "", Rules |-> 0]

\* Two requests of one node read the same clock value only while they overlap:
\* a request that has already returned read an earlier value.
ClockReadOverlaps(n) ==
    \A k \in AskCalls :
        ask[k].prompt.ID = <<n, now>> => ask[k].pc \in {"registered", "waiting"}

(***************************************************************************)
(* Session registry: state after construction (refined below)              *)
(***************************************************************************)
(***************************************************************************)
(* State store: nodes and rule lists (store.go)                            *)
(***************************************************************************)
\* Store.indexOfLocked(id), 0 for -1
indexOfLocked(ns, id) ==
    IF \E i \in 1 .. Len(ns) : ns[i].ID = id
    THEN CHOOSE i \in 1 .. Len(ns) :
            ns[i].ID = id /\ \A j \in 1 .. (i - 1) : ns[j].ID # id
    ELSE 0

\* A merge that takes the update as it is: C18 must reject it.
mergeNodes_Replace(current, update) == update

\* mergeNodes(current, update)
mergeNodes(current, update) ==
    [ID |-> IF update.ID = "" THEN current.ID ELSE update.ID,
     Name |-> IF update.Name = "" THEN current.Name ELSE update.Name,
     Address |-> IF update.Address = "" THEN current.Address ELSE update.Address,
     Version |-> IF update.Version = "" THEN current.Version ELSE update.Version,
     FirewallEnabled |-> IF ~update.FirewallEnabled /\ current.FirewallEnabled
                         THEN TRUE ELSE update.FirewallEnabled,
     Status |-> IF update.Status = "" THEN current.Status ELSE update.Status,
     Message |-> IF update.Message = "" THEN current.Message ELSE update.Message,
     LastSeen |-> IF update.LastSeen = ZeroTime THEN current.LastSeen
                  ELSE update.LastSeen]

\* Store.upsertNodeLocked(node): the node list afterwards
upsertNodeLocked(ns, node) ==
    LET idx == indexOfLocked(ns, node.ID)
    IN IF idx = 0 THEN Append(ns, node)
       ELSE [ns EXCEPT ![idx] = mergeNodes(ns[idx], node)]

\* Store.UpdateNodeStatus(id, status, message, lastSeen): the node list afterwards
UpdateNodeStatus(ns, id, status, message, lastSeen) ==
    LET idx == indexOfLocked(ns, id)
    IN IF idx = 0
       THEN Append(ns, [ID |-> id, Name |-> id, Address |-> "", Version |-> "",
                        FirewallEnabled |-> FALSE, Status |-> status,
                        Message |-> message, LastSeen |-> lastSeen])
       ELSE [ns EXCEPT ![idx] =
               [@ EXCEPT !.Status = status,
                         !.Message = IF message # "" THEN message ELSE @,
                         !.LastSeen = IF lastSeen # ZeroTime THEN lastSeen ELSE @]]

\* index of the first rule of the list with this name, 0 when there is none
RuleIndex(list, ruleName) ==
    IF \E i \in 1 .. Len(list) : list[i].Name = ruleName
    THEN CHOOSE i \in 1 .. Len(list) :
            list[i].Name = ruleName /\ \A j \in 1 .. (i - 1) : list[j].Name # ruleName
    ELSE 0

\* Store.SetRules(nodeID, rules): the rules map afterwards
SetRules(rs, nodeID, list) == (nodeID :> list) @@ rs

\* Store.updateRuleLocked(nodeID, ruleName, fn) with fn setting Enabled
updateRuleLocked(rs, nodeID, ruleName, enabled) ==
    IF nodeID \notin DOMAIN rs THEN rs
    ELSE LET idx == RuleIndex(rs[nodeID], ruleName)
         IN IF idx = 0 THEN rs
            ELSE [rs EXCEPT ![nodeID][idx].Enabled = enabled]

\* Store.RemoveRule(nodeID, ruleName): the rules map afterwards
RemoveRule(rs, nodeID, ruleName) ==
    IF nodeID \notin DOMAIN rs THEN rs
    ELSE LET idx == RuleIndex(rs[nodeID], ruleName)
             list == RemoveAt(rs[nodeID], idx)
         IN IF idx = 0 THEN rs
            ELSE IF Len(list) = 0
            THEN [k \in (DOMAIN rs) \ {nodeID} |-> rs[k]]
            ELSE [rs EXCEPT ![nodeID] = list]

(***************************************************************************)
(* Subscriptions and the mutators that notify them (store.go)              *)
(***************************************************************************)
\* Store.notifyLocked: a non-blocking send on the events channel (capacity 1)
\* of every registered subscription; a send on a closed channel panics
notifyLocked ==
    /\ subObj' = [i \in DOMAIN subObj |->
                     IF i \in subs
                     THEN IF subObj[i].closed THEN subObj[i]
                          ELSE [subObj[i] EXCEPT !.events = 1]
                     ELSE [subObj[i] EXCEPT !.late = TRUE]]
    /\ crashed' = \E i \in subs : subObj[i].closed

\* the value Store.Snapshot() returns
Snapshot ==
    [Nodes |-> nodes, Rules |-> rules, Stats |-> stats, Prompts |-> prompts,
     LastError |-> lastError, Settings |-> settings, Alerts |-> alerts]

\* Store.Subscribe(): a new subscription with an empty events channel of
\* capacity 1.  late records that a notification ran after the subscription
\* left s.subs; known is the state its consumer has from Subscribe or from
\* its last Snapshot().
Subscribe_Store ==
    /\ ~crashed
    /\ Len(subObj) < MaxSubs
    /\ subObj' = Append(subObj, [events |-> 0, closed |-> FALSE, store |-> TRUE,
                                 late |-> FALSE])
    /\ subs' = subs \cup {Len(subObj) + 1}
    /\ watch' = Append(watch, [pc |-> "waiting", known |-> Snapshot,
                               closer |-> "idle", closes |-> 0])
    /\ UNCHANGED <<now, storeVars, promptVars, sessVars, crashed, alerts, alertsAdded,
                   heapVars, probe>>

\* a receive from sub.Events(): the buffered signal if there is one, the
\* closed channel's zero value otherwise, and blocked while neither
ReceiveEvent(i) ==
    /\ ~crashed
    /\ i \in DOMAIN subObj
    /\ watch[i].pc = "waiting"
    /\ subObj[i].events = 1 \/ subObj[i].closed
    /\ subObj' = [subObj EXCEPT ![i].events = 0]
    /\ watch' = [watch EXCEPT ![i].pc = IF subObj[i].events = 1 THEN "woken"
                                        ELSE "ended"]
    /\ UNCHANGED <<now, storeVars, promptVars, sessVars, crashed, alerts, alertsAdded,
                   subs, heapVars, probe>>

\* the consumer's Store.Snapshot() after a wake-up
ReadSnapshot(i) ==
    /\ ~crashed
    /\ i \in DOMAIN subObj
    /\ watch[i].pc = "woken"
    /\ watch' = [watch EXCEPT ![i].pc = "waiting", ![i].known = Snapshot]
    /\ UNCHANGED <<now, storeVars, promptVars, sessVars, crashed, alerts, alertsAdded,
                   subs, subObj, heapVars, probe>>

\* Subscription.Close(), up to the call of removeSubscription: it returns at
\* once when sub.store is nil
Close(i) ==
    /\ ~crashed
    /\ i \in DOMAIN subObj
    /\ watch[i].closer = "idle"
    /\ watch[i].closes < MaxCloses
    /\ watch' = IF subObj[i].store
                THEN [watch EXCEPT ![i].closer = "removing"]
                ELSE [watch EXCEPT ![i].closes = @ + 1]
    /\ UNCHANGED <<now, storeVars, promptVars, sessVars, crashed, alerts, alertsAdded,
                   subs, subObj, heapVars, probe>>

\* removeSubscription that closes the channel and leaves the subscription in
\* s.subs: C17 must reject it.
removeSubscription_KeepEntry(i) ==
    /\ ~crashed
    /\ i \in DOMAIN subObj
    /\ watch[i].closer = "removing"
    /\ IF i \in subs
       THEN /\ subObj' = [subObj EXCEPT ![i].closed = TRUE]
            /\ crashed' = subObj[i].closed
       ELSE UNCHANGED <<subObj, crashed>>
    /\ watch' = [watch EXCEPT ![i].closer = "removed"]
    /\ UNCHANGED <<now, storeVars, promptVars, sessVars, alerts, alertsAdded,
                   subs, heapVars, probe>>

\* Store.removeSubscription(id), under the store's lock; closing a closed
\* channel panics
removeSubscription(i) ==
    /\ ~crashed
    /\ i \in DOMAIN subObj
    /\ watch[i].closer = "removing"
    /\ IF i \in subs
       THEN /\ subs' = subs \ {i}
            /\ subObj' = [subObj EXCEPT ![i].closed = TRUE]
            /\ crashed' = subObj[i].closed
       ELSE UNCHANGED <<subs, subObj, crashed>>
    /\ watch' = [watch EXCEPT ![i].closer = "removed"]
    /\ UNCHANGED <<now, storeVars, promptVars, sessVars, alerts, alertsAdded,
                   heapVars, probe>>

\* Subscription.Close(), after removeSubscription: sub.store = nil, return
CloseReturn(i) ==
    /\ ~crashed
    /\ i \in DOMAIN subObj
    /\ watch[i].closer = "removed"
    /\ subObj' = [subObj EXCEPT ![i].store = FALSE]
    /\ watch' = [watch EXCEPT ![i].closer = "idle", ![i].closes = @ + 1]
    /\ UNCHANGED <<now, storeVars, promptVars, sessVars, crashed, alerts, alertsAdded,
                   subs, heapVars, probe>>

\* Store.UpdateNodeStatus(id, status, message, lastSeen): the branch that
\* appends a node returns before notifyLocked
UpdateNodeStatus_Store(id, status, message) ==
    /\ ~crashed
    /\ nodes' = UpdateNodeStatus(nodes, id, status, message, now)
    /\ IF indexOfLocked(nodes, id) = 0
       THEN UNCHANGED <<subObj, crashed>>
       ELSE notifyLocked
    /\ UNCHANGED <<now, rules, stats, prompts, lastError, lastErrorAt, settings,
                   errTimers, promptVars, sessVars, alerts, alertsAdded, subs, watch,
                   heapVars, probe>>

\* Store.SetError(msg): record the message and when it was issued, notify,
\* start the expireError goroutine.  probe keeps the issue time of the error
\* the call replaced (ZeroTime when none was displayed).
SetError(msg) ==
    /\ ~crashed
    /\ lastError' = msg
    /\ lastErrorAt' = now
    /\ errTimers' = errTimers \cup {now}
    /\ notifyLocked
    /\ probe' = [op |-> "SetError", replaced |-> lastErrorAt]
    /\ UNCHANGED <<now, nodes, rules, stats, prompts, settings, promptVars,
                   sessVars, alerts, alertsAdded, subs, watch, heapVars>>

\* Store.ClearError()
ClearError ==
    /\ ~crashed
    /\ lastError # EmptyStr
    /\ lastError' = EmptyStr
    /\ lastErrorAt' = ZeroTime
    /\ notifyLocked
    /\ UNCHANGED <<now, nodes, rules, stats, prompts, settings, errTimers,
                   promptVars, sessVars, alerts, alertsAdded, subs, watch, heapVars,
                   probe>>

\* time passes; an expireError goroutine whose timer is due may run late
ErrorTick ==
    /\ ~crashed
    /\ now < MaxClock
    /\ now' = now + 1
    /\ UNCHANGED <<storeVars, promptVars, sessVars, crashed, extVars>>

\* Store.SetStats(stats)
SetStats(st) ==
    /\ ~crashed
    /\ stats' = st
    /\ notifyLocked
    /\ UNCHANGED <<now, nodes, rules, prompts, lastError, lastErrorAt, settings,
                   errTimers, promptVars, sessVars, alerts, alertsAdded, subs, watch,
                   heapVars, probe>>

\* the call a behaviour made last: the mutator and its argument
LastCall(op, arg) == [op |-> op, arg |-> arg]

\* Store.UpsertNode(node)
UpsertNode(node) ==
    /\ ~crashed
    /\ nodes' = upsertNodeLocked(nodes, node)
    /\ notifyLocked
    /\ probe' = LastCall("UpsertNode", node)
    /\ UNCHANGED <<now, rules, stats, prompts, lastError, lastErrorAt, settings,
                   errTimers, promptVars, sessVars, alerts, alertsAdded, subs, watch,
                   heapVars>>

\* the capacity of the alert list
maxAlerts == 100

\* the alert the n-th AddAlert call of a behaviour passes
NthAlert(n) == n

\* AddAlert without the truncation: C19 must reject it.
AddAlert_NoCap ==
    /\ ~crashed
    /\ alertsAdded < MaxAlertCalls
    /\ alertsAdded' = alertsAdded + 1
    /\ alerts' = <<NthAlert(alertsAdded + 1)>> \o alerts
    /\ notifyLocked
    /\ UNCHANGED <<now, storeVars, promptVars, sessVars, subs, watch, heapVars, probe>>

\* Store.AddAlert(alert)
AddAlert ==
    /\ ~crashed
    /\ alertsAdded < MaxAlertCalls
    /\ alertsAdded' = alertsAdded + 1
    /\ LET added == <<NthAlert(alertsAdded + 1)>> \o alerts
       IN  alerts' = IF Len(added) > maxAlerts
                     THEN SubSeq(added, 1, maxAlerts)
                     ELSE added
    /\ notifyLocked
    /\ UNCHANGED <<now, storeVars, promptVars, sessVars, subs, watch, heapVars, probe>>

(***************************************************************************)
(* The store's slices and maps as references (store.go: Snapshot, the      *)
(* mutators that take slices, and the clone helpers).  An operator that    *)
(* allocates returns the heap afterwards (h) and its value (v).            *)
(***************************************************************************)
\* make + fill: a new backing array or map holding cells
Alloc(h, cells) == [h |-> Append(h, cells), v |-> Len(h) + 1]

RECURSIVE cloneRuleOperator(_, _), cloneChildren(_, _, _)

\* cloneRuleOperator(op)
cloneRuleOperator(h, op) ==
    IF op.kid = 0 \/ Len(h[op.kid]) = 0
    THEN [h |-> h, v |-> [op EXCEPT !.kid = 0]]
    ELSE LET kids == cloneChildren(h, h[op.kid], 1)
             arr == Alloc(kids.h, kids.v)
         IN [h |-> arr.h, v |-> [op EXCEPT !.kid = arr.v]]

\* cloneRuleOperator, lines 460-462: the loop over op.Children from index i
cloneChildren(h, cells, i) ==
    IF i > Len(cells) THEN [h |-> h, v |-> <<>>]
    ELSE LET c == cloneRuleOperator(h, cells[i])
             rest == cloneChildren(c.h, cells, i + 1)
         IN [h |-> rest.h, v |-> <<c.v>> \o rest.v]

\* A cloneRule that copies the rule but not its operator tree: C15 must reject
\* it.
cloneRule_Shallow(h, rule) == [h |-> h, v |-> rule]

\* cloneRule(rule)
cloneRule(h, rule) == cloneRuleOperator(h, rule)

RECURSIVE cloneRuleLoop(_, _, _)

\* cloneRuleSlice, lines 443-445: the loop from index i
cloneRuleLoop(h, cells, i) ==
    IF i > Len(cells) THEN [h |-> h, v |-> <<>>]
    ELSE LET c == cloneRule(h, cells[i])
             rest == cloneRuleLoop(c.h, cells, i + 1)
         IN [h |-> rest.h, v |-> <<c.v>> \o rest.v]

\* cloneRuleSlice(list)
cloneRuleSlice(h, list) ==
    IF list = 0 \/ Len(h[list]) = 0 THEN [h |-> h, v |-> 0]
    ELSE LET copied == cloneRuleLoop(h, h[list], 1)
         IN Alloc(copied.h, copied.v)

RECURSIVE cloneRulesLoop(_, _, _)

\* cloneRulesMap, lines 405-407: the loop over the map's entries from index i
cloneRulesLoop(h, entries, i) ==
    IF i > Len(entries) THEN [h |-> h, v |-> <<>>]
    ELSE LET c == cloneRuleSlice(h, entries[i].kid)
             rest == cloneRulesLoop(c.h, entries, i + 1)
         IN [h |-> rest.h, v |-> <<Cell(entries[i].val, c.v)>> \o rest.v]

\* cloneRulesMap(rules)
cloneRulesMap(h, m) ==
    IF m = 0 \/ Len(h[m]) = 0 THEN [h |-> h, v |-> 0]
    ELSE LET copied == cloneRulesLoop(h, h[m], 1)
         IN Alloc(copied.h, copied.v)

\* cloneNodes(nodes): make and copy
cloneNodes(h, list) ==
    IF list = 0 \/ Len(h[list]) = 0 THEN [h |-> h, v |-> 0]
    ELSE Alloc(h, h[list])

\* cloneBuckets(buckets): make and copy
cloneBuckets(h, list) ==
    IF list = 0 \/ Len(h[list]) = 0 THEN [h |-> h, v |-> 0]
    ELSE Alloc(h, h[list])

\* cloneStats(stats): TopDestHosts (TopDestPorts and TopExecutables alike)
cloneStats(h, st) ==
    LET buckets == cloneBuckets(h, st.kid)
    IN [h |-> buckets.h, v |-> [st EXCEPT !.kid = buckets.v]]

\* cloneConnection(conn): ProcessArgs (ProcessChecksums alike)
cloneConnection(h, conn) ==
    IF conn.kid # 0 /\ Len(h[conn.kid]) > 0
    THEN LET args == Alloc(h, h[conn.kid])
         IN [h |-> args.h, v |-> [conn EXCEPT !.kid = args.v]]
    ELSE [h |-> h, v |-> conn]

\* clonePrompt(prompt)
clonePrompt(h, prompt) == cloneConnection(h, prompt)

RECURSIVE clonePromptLoop(_, _, _)

\* clonePrompts, lines 416-418: the loop from index i
clonePromptLoop(h, cells, i) ==
    IF i > Len(cells) THEN [h |-> h, v |-> <<>>]
    ELSE LET c == clonePrompt(h, cells[i])
             rest == clonePromptLoop(c.h, cells, i + 1)
         IN [h |-> rest.h, v |-> <<c.v>> \o rest.v]

\* clonePrompts(prompts)
clonePrompts(h, list) ==
    IF list = 0 \/ Len(h[list]) = 0 THEN [h |-> h, v |-> 0]
    ELSE LET copied == clonePromptLoop(h, h[list], 1)
         IN Alloc(copied.h, copied.v)

\* the cells of a slice (none for nil)
CellsOf(h, a) == IF a = 0 THEN <<>> ELSE h[a]

\* everything but the heap
nonHeapVars ==
    <<now, storeVars, promptVars, sessVars, crashed, alerts, alertsAdded, subVars,
      probe>>

\* calls of Snapshot and of the mutators in one behaviour, and writes the
\* callers make through what they hold
MaxStoreCalls == 3
MaxWrites == 2

\* the value a caller writes
Mutated == "mutated"

\* the indexes of the model's arrays: none grows beyond one element per call
CellIndexes == 1 .. MaxStoreCalls

\* what callers pass: a rule whose operator tree is two levels deep, and a rule
\* with a leaf operator
RuleShapes == {"nested", "flat"}

\* the caller builds a Rule
MakeRule(h, shape) ==
    IF shape = "nested"
    THEN LET leaf == Alloc(h, <<Cell("/usr/bin/ssh", 0)>>)
             inner == Alloc(leaf.h, <<Cell("list", leaf.v)>>)
         IN [h |-> inner.h, v |-> Cell("ssh", inner.v)]
    ELSE [h |-> h, v |-> Cell("http", 0)]

\* the caller builds a []Rule with one rule
MakeRules(h, shape) ==
    LET rule == MakeRule(h, shape) IN Alloc(rule.h, <<rule.v>>)

\* the caller builds a Prompt whose Connection has two ProcessArgs
MakePrompt(h) ==
    LET args == Alloc(h, <<Cell("curl", 0), Cell("-s", 0)>>)
    IN [h |-> args.h, v |-> Cell("prompt-1", args.v)]

\* the caller builds Stats with one bucket in TopDestHosts
MakeStats(h) ==
    LET buckets == Alloc(h, <<Cell("example.com", 0)>>)
    IN [h |-> buckets.h, v |-> Cell("node-1", buckets.v)]

\* the caller builds a []Node with one node
MakeNodes(h) == Alloc(h, <<Cell("node-1", 0)>>)

\* index of the entry of a map with this key, 0 when there is none
EntryIndex(entries, key) ==
    IF \E i \in 1 .. Len(entries) : entries[i].val = key
    THEN CHOOSE i \in 1 .. Len(entries) : entries[i].val = key
    ELSE 0

\* m[key] = list on the map's cells
SetEntry(entries, key, list) ==
    LET idx == EntryIndex(entries, key)
    IN IF idx = 0 THEN Append(entries, Cell(key, list))
       ELSE [entries EXCEPT ![idx].kid = list]

\* m[key] on the map's cells (nil when absent)
GetEntry(entries, key) ==
    LET idx == EntryIndex(entries, key)
    IN IF idx = 0 THEN 0 ELSE entries[idx].kid

\* what a caller holds after a call: the slices and maps of its argument or of
\* the Snapshot it received
Holds(kind, roots) == [kind |-> kind, roots |-> roots \ {0}]

\* Store.SetRules(nodeID, rules) with a slice the caller built
CallSetRules(nodeID, shape) ==
    /\ Len(held) < MaxStoreCalls
    /\ LET arg == MakeRules(heap, shape)
           copied == cloneRuleSlice(arg.h, arg.v)
       IN /\ heap' = [copied.h EXCEPT ![live.Rules] = SetEntry(@, nodeID, copied.v)]
          /\ held' = Append(held, Holds("arg", {arg.v}))
    /\ UNCHANGED <<live, nonHeapVars>>

\* Store.AddRule(nodeID, rule) with a rule the caller built
CallAddRule(nodeID, shape) ==
    /\ Len(held) < MaxStoreCalls
    /\ LET arg == MakeRule(heap, shape)
           copied == cloneRule(arg.h, arg.v)
           old == CellsOf(copied.h, GetEntry(copied.h[live.Rules], nodeID))
           list == Alloc(copied.h, Append(old, copied.v))
       IN /\ heap' = [list.h EXCEPT ![live.Rules] = SetEntry(@, nodeID, list.v)]
          /\ held' = Append(held, Holds("arg", {arg.v.kid}))
    /\ UNCHANGED <<live, nonHeapVars>>

\* Store.AddPrompt(prompt) with a prompt the caller built
CallAddPrompt ==
    /\ Len(held) < MaxStoreCalls
    /\ LET arg == MakePrompt(heap)
           copied == clonePrompt(arg.h, arg.v)
           list == Alloc(copied.h, Append(CellsOf(copied.h, live.Prompts), copied.v))
       IN /\ heap' = list.h
          /\ live' = [live EXCEPT !.Prompts = list.v]
          /\ held' = Append(held, Holds("arg", {arg.v.kid}))
    /\ UNCHANGED nonHeapVars

\* Store.SetStats(stats) with stats the caller built
CallSetStats ==
    /\ Len(held) < MaxStoreCalls
    /\ LET arg == MakeStats(heap)
           copied == cloneStats(arg.h, arg.v)
       IN /\ heap' = copied.h
          /\ live' = [live EXCEPT !.Stats = copied.v]
          /\ held' = Append(held, Holds("arg", {arg.v.kid}))
    /\ UNCHANGED nonHeapVars

\* Store.SetNodes(nodes) with a slice the caller built
CallSetNodes ==
    /\ Len(held) < MaxStoreCalls
    /\ LET arg == MakeNodes(heap)
           copied == cloneNodes(arg.h, arg.v)
       IN /\ heap' = copied.h
          /\ live' = [live EXCEPT !.Nodes = copied.v]
          /\ held' = Append(held, Holds("arg", {arg.v}))
    /\ UNCHANGED nonHeapVars

\* Store.Snapshot(): the caller receives the copy
CallSnapshot ==
    /\ Len(held) < MaxStoreCalls
    /\ LET ns == cloneNodes(heap, live.Nodes)
           rs == cloneRulesMap(ns.h, live.Rules)
           st == cloneStats(rs.h, live.Stats)
           ps == clonePrompts(st.h, live.Prompts)
       IN /\ heap' = ps.h
          /\ held' = Append(held, Holds("snapshot", {ns.v, rs.v, st.v.kid, ps.v}))
    /\ UNCHANGED <<live, nonHeapVars>>

RECURSIVE ReachFrom(_, _)

\* the arrays and maps reachable from address a
ReachFrom(h, a) ==
    IF a = 0 THEN {}
    ELSE {a} \cup UNION {ReachFrom(h, h[a][i].kid) : i \in 1 .. Len(h[a])}

\* the arrays and maps reachable from what a caller holds
Reach(h, value) == UNION {ReachFrom(h, r) : r \in value.roots}

\* the cells callers have written
Written(h) ==
    {<<a, j>> \in (1 .. Len(h)) \X CellIndexes : j <= Len(h[a]) /\ h[a][j].val = Mutated}

\* a caller writes through the i-th value held: a field of element j of the
\* array or map a, or the whole element
CallerWrites(i, a, j, whole) ==
    /\ i \in 1 .. Len(held)
    /\ a \in Reach(heap, held[i])
    /\ j \in 1 .. Len(heap[a])
    /\ heap[a][j].val # Mutated
    /\ Cardinality(Written(heap)) < MaxWrites
    /\ heap' = [heap EXCEPT ![a][j] =
                   IF whole THEN Cell(Mutated, 0) ELSE [@ EXCEPT !.val = Mutated]]
    /\ UNCHANGED <<live, held, nonHeapVars>>

(***************************************************************************)
(* Session registry (server.go: Subscribe, Notifications, registerSession, *)
(* unregisterSession, dispatchNotifications, sendNotification) and the     *)
(* rule mutations that use it (EnableRule, DisableRule, DeleteRule)        *)
(***************************************************************************)
Streams == 1 .. MaxStreams
Mutators == 1 .. MaxMutators

ActionEnableRule == "ENABLE_RULE"
ActionDisableRule == "DISABLE_RULE"
ActionDeleteRule == "DELETE_RULE"
RuleActions == {ActionEnableRule, ActionDisableRule, ActionDeleteRule}

NodeStatusDisconnected == "disconnected"
NodeStatusConnecting == "connecting"
NodeStatusReady == "ready"
NodeStatusError == "error"

\* a session object as registerSession allocates it: the channel (its buffer
\* and whether it is closed) and whether the field send has been set to nil.
\* accepted and forwarded are the channel's history: the ids of the
\* notifications sent on it, and of those stream.Send has taken from its
\* dispatch goroutine, in order; replaced records that a later registerSession
\* found this session in Server.sessions.
NewSession(nodeID) ==
    [nodeID |-> nodeID, buf |-> <<>>, closed |-> FALSE, sendNil |-> FALSE,
     accepted |-> <<>>, forwarded |-> <<>>, replaced |-> FALSE]

\* the one UI goroutine's EnableRule / DisableRule / DeleteRule invocation
IdleMut == [pc |-> "idle", kind |-> "", nodeID |-> "", ruleName |-> "",
            notif |-> <<>>, sess |-> 0, err |-> NoErr]

\* a Notifications invocation (pc, sendErr, and ret, the error it returns once
\* it has chosen one) and its dispatch goroutine (dpc, and out, the
\* notification it is handing to stream.Send)
IdleStream == [pc |-> "idle", nodeID |-> "", sess |-> 0, dpc |-> "none",
               out |-> <<>>, sendErr |-> <<>>, ret |-> <<>>]

InitSessionVars ==
    /\ sessions = [n \in {} |-> 0]
    /\ sessObj = <<>>
    /\ notifySeqID = 0
    /\ mut = [m \in Mutators |-> IdleMut]
    /\ streams = [k \in Streams |-> IdleStream]

\* the values an unsynchronised read of sess.send can return: the field races
\* with the write of nil in registerSession / unregisterSession
SendFieldReads(sess) ==
    IF sessObj[sess].sendNil THEN {"nil", "chan"} ELSE {"chan"}

\* convertRules(list, nodeID)
convertRules(list, nodeID) == [i \in 1 .. Len(list) |-> convertRule(list[i], nodeID)]

\* the rule list a daemon reports in its ClientConfig
CfgRules ==
    << [Created |-> 0, Name |-> "ssh", Enabled |-> FALSE, Action |-> "allow",
        Duration |-> "always",
        Operator |-> simpleOperator("process.path", <<"/", "s", "s", "h">>)] >>

RuleNames == {"ssh", "web"}

\* Server.nodeFromContext(ctx, cfg) for a daemon that reports no name, no
\* version and no running firewall
nodeFromContext(nodeID) ==
    [ID |-> nodeID, Name |-> nodeID, Address |-> nodeID, Version |-> "",
     FirewallEnabled |-> FALSE,
     Status |-> NodeStatusConnecting, Message |-> "connecting", LastSeen |-> now]

\* Server.Subscribe
Subscribe(nodeID) ==
    /\ ~crashed
    /\ LET node == [nodeFromContext(nodeID) EXCEPT !.Message = "subscribed",
                                                  !.Status = NodeStatusReady,
                                                  !.LastSeen = now]
       IN nodes' = upsertNodeLocked(nodes, node)
    /\ rules' = SetRules(rules, nodeID, convertRules(CfgRules, nodeID))
    /\ stats' = syncRuleCountLocked(stats, rules', nodeID)
    /\ UNCHANGED <<now, prompts, lastError, lastErrorAt, settings, errTimers,
                   promptVars, sessVars, crashed, extVars>>

\* Notifications, lines 177-182: registerSession, then start the dispatch
\* goroutine
NotificationsOpen(k, nodeID) ==
    /\ ~crashed
    /\ streams[k].pc = "idle"
    /\ LET had == nodeID \in DOMAIN sessions
           old == IF had THEN sessions[nodeID] ELSE 0
           closing == had /\ ~sessObj[old].sendNil
           marked == IF had THEN [sessObj EXCEPT ![old].replaced = TRUE]
                     ELSE sessObj
           closedOld == IF closing
                        THEN [marked EXCEPT ![old].closed = TRUE,
                                            ![old].sendNil = TRUE]
                        ELSE marked
       IN /\ sessObj' = Append(closedOld, NewSession(nodeID))
          /\ sessions' = (nodeID :> (Len(sessObj) + 1)) @@ sessions
          /\ crashed' = (closing /\ sessObj[old].closed)
          /\ streams' = [streams EXCEPT ![k] =
                           [pc |-> "polling", nodeID |-> nodeID,
                            sess |-> Len(sessObj) + 1, dpc |-> "init",
                            out |-> <<>>, sendErr |-> <<>>, ret |-> <<>>]]
    /\ UNCHANGED <<now, storeVars, promptVars, notifySeqID, mut, extVars>>

\* dispatchNotifications, line 336: the range expression sess.send is
\* evaluated once; a nil channel blocks the goroutine for ever
DispatchStart(k) ==
    /\ ~crashed
    /\ streams[k].dpc = "init"
    /\ \E seen \in SendFieldReads(streams[k].sess) :
          streams' = [streams EXCEPT ![k].dpc =
                         IF seen = "nil" THEN "stuck" ELSE "ranging"]
    /\ UNCHANGED <<now, storeVars, promptVars, sessions, sessObj, notifySeqID, mut,
                   crashed, extVars>>

\* A dispatch loop that reads the queue's head without taking it off: C12 must
\* reject it.
DispatchReceive_Peek(k) ==
    /\ ~crashed
    /\ streams[k].dpc = "ranging"
    /\ Len(sessObj[streams[k].sess].buf) > 0
    /\ streams' = [streams EXCEPT ![k].dpc = "sending",
                                  ![k].out = <<Head(sessObj[streams[k].sess].buf)>>]
    /\ UNCHANGED <<now, storeVars, promptVars, sessions, sessObj, notifySeqID, mut,
                   crashed, extVars>>

\* dispatchNotifications, line 336: receive the next notification
DispatchReceive(k) ==
    /\ ~crashed
    /\ streams[k].dpc = "ranging"
    /\ Len(sessObj[streams[k].sess].buf) > 0
    /\ sessObj' = [sessObj EXCEPT ![streams[k].sess].buf = Tail(@)]
    /\ streams' = [streams EXCEPT ![k].dpc = "sending",
                                  ![k].out = <<Head(sessObj[streams[k].sess].buf)>>]
    /\ UNCHANGED <<now, storeVars, promptVars, sessions, notifySeqID, mut, crashed,
                   extVars>>

\* dispatchNotifications, line 337: stream.Send has handed the notification to
\* the transport
DispatchSent(k) ==
    /\ ~crashed
    /\ streams[k].dpc = "sending"
    /\ streams' = [streams EXCEPT ![k].dpc = "ranging", ![k].out = <<>>]
    /\ sessObj' = [sessObj EXCEPT ![streams[k].sess].forwarded =
                      Append(@, streams[k].out[1].Id)]
    /\ UNCHANGED <<now, storeVars, promptVars, sessions, notifySeqID, mut, crashed,
                   extVars>>

\* dispatchNotifications, lines 337-340: stream.Send fails
DispatchSendFail(k) ==
    /\ ~crashed
    /\ streams[k].dpc = "sending"
    /\ streams' = [streams EXCEPT ![k].dpc = "exited", ![k].out = <<>>,
                                  ![k].sendErr = << <<"send failed">> >>]
    /\ UNCHANGED <<now, storeVars, promptVars, sessions, sessObj, notifySeqID, mut,
                   crashed, extVars>>

\* dispatchNotifications, line 342: the channel is closed and drained
DispatchClosed(k) ==
    /\ ~crashed
    /\ streams[k].dpc = "ranging"
    /\ Len(sessObj[streams[k].sess].buf) = 0
    /\ sessObj[streams[k].sess].closed
    /\ streams' = [streams EXCEPT ![k].dpc = "exited", ![k].sendErr = <<NoErr>>]
    /\ UNCHANGED <<now, storeVars, promptVars, sessions, sessObj, notifySeqID, mut,
                   crashed, extVars>>

\* Notifications, lines 185-193: poll the dispatch goroutine's result
NotificationsPoll(k) ==
    /\ ~crashed
    /\ streams[k].pc = "polling"
    /\ IF streams[k].sendErr = <<>>
       THEN /\ streams' = [streams EXCEPT ![k].pc = "recv"]
            /\ UNCHANGED nodes
       ELSE /\ streams' = [streams EXCEPT ![k].pc = "unregister",
                                          ![k].sendErr = <<>>,
                                          ![k].ret = streams[k].sendErr]
            /\ nodes' = IF Head(streams[k].sendErr) # NoErr
                        THEN UpdateNodeStatus(nodes, streams[k].nodeID,
                                              NodeStatusError, "send failed", now)
                        ELSE nodes
    /\ UNCHANGED <<now, rules, stats, prompts, lastError, lastErrorAt, settings,
                   errTimers, promptVars, sessions, sessObj, notifySeqID, mut,
                   crashed, extVars>>

\* Notifications, lines 195-204: stream.Recv returns a reply, io.EOF or an error
NotificationsRecv(k, outcome) ==
    /\ ~crashed
    /\ streams[k].pc = "recv"
    /\ CASE outcome = "reply" ->
              /\ streams' = [streams EXCEPT ![k].pc = "polling"]
              /\ UNCHANGED nodes
         [] outcome = "eof" ->
              /\ streams' = [streams EXCEPT ![k].pc = "unregister",
                                            ![k].ret = <<NoErr>>]
              /\ nodes' = UpdateNodeStatus(nodes, streams[k].nodeID,
                                           NodeStatusDisconnected,
                                           "notifications closed", now)
         [] outcome = "error" ->
              /\ streams' = [streams EXCEPT ![k].pc = "unregister",
                                            ![k].ret = << <<"recv failed">> >>]
              /\ nodes' = UpdateNodeStatus(nodes, streams[k].nodeID,
                                           NodeStatusError, "recv failed", now)
    /\ UNCHANGED <<now, rules, stats, prompts, lastError, lastErrorAt, settings,
                   errTimers, promptVars, sessions, sessObj, notifySeqID, mut,
                   crashed, extVars>>

\* An unregisterSession that forgets whatever session the node has: C31 must
\* reject it.
UnregisterLocked_Any(k) ==
    /\ ~crashed
    /\ streams[k].pc = "unregister"
    /\ sessions' = [n \in (DOMAIN sessions) \ {streams[k].nodeID} |-> sessions[n]]
    /\ streams' = [streams EXCEPT ![k].pc = "closing"]
    /\ UNCHANGED <<now, storeVars, promptVars, sessObj, notifySeqID, mut, crashed,
                   extVars>>

\* An unregisterSession that leaves the registry as it is: C26 must reject it.
UnregisterLocked_Keep(k) ==
    /\ ~crashed
    /\ streams[k].pc = "unregister"
    /\ streams' = [streams EXCEPT ![k].pc = "closing"]
    /\ UNCHANGED <<now, storeVars, promptVars, sessions, sessObj, notifySeqID, mut,
                   crashed, extVars>>

\* unregisterSession, lines 360-364: under sessionsMu, forget the session if it
\* is still the node's current one
UnregisterLocked(k) ==
    /\ ~crashed
    /\ streams[k].pc = "unregister"
    /\ LET nodeID == streams[k].nodeID IN
       sessions' = IF nodeID \in DOMAIN sessions /\ sessions[nodeID] = streams[k].sess
                   THEN [n \in (DOMAIN sessions) \ {nodeID} |-> sessions[n]]
                   ELSE sessions
    /\ streams' = [streams EXCEPT ![k].pc = "closing"]
    /\ UNCHANGED <<now, storeVars, promptVars, sessObj, notifySeqID, mut, crashed,
                   extVars>>

\* unregisterSession, lines 365-368: outside the lock, close the channel and
\* set the field to nil unless it is nil already
UnregisterClose(k) ==
    /\ ~crashed
    /\ streams[k].pc = "closing"
    /\ LET sess == streams[k].sess IN
       IF sessObj[sess].sendNil
       THEN UNCHANGED <<sessObj, crashed>>
       ELSE /\ sessObj' = [sessObj EXCEPT ![sess].closed = TRUE,
                                          ![sess].sendNil = TRUE]
            /\ crashed' = sessObj[sess].closed
    /\ streams' = [streams EXCEPT ![k].pc = "done"]
    /\ UNCHANGED <<now, storeVars, promptVars, sessions, notifySeqID, mut, extVars>>

\* Server.lookupRule(nodeID, ruleName): index in Snapshot().Rules[nodeID]
lookupRule(nodeID, ruleName) == RuleIndex(RulesOf(rules, nodeID), ruleName)

\* Server.newNotification(action, nodeID) with the rule attached
newNotification(id, action, nodeID, rule) ==
    [Id |-> id, Type |-> action, ClientName |-> nodeID,
     Rules |-> <<serializeRule(rule)>>]

\* the rule after the mutate callback of EnableRule / DisableRule (DeleteRule
\* has none)
mutate(kind, rule) ==
    CASE kind = ActionEnableRule -> [rule EXCEPT !.Enabled = TRUE]
      [] kind = ActionDisableRule -> [rule EXCEPT !.Enabled = FALSE]
      [] OTHER -> rule

\* the call returns err: its locals are gone, its result stays visible
MutReturn(call, err) ==
    [call EXCEPT !.pc = "done", !.notif = <<>>, !.sess = 0, !.err = err]

\* enqueueRuleAction / DeleteRule up to newNotification: look the rule up,
\* apply the mutation to the copy, build the notification
MutLookup(m, kind, nodeID, ruleName) ==
    /\ ~crashed
    /\ mut[m].pc \in {"idle", "done"}
    /\ notifySeqID < MaxNotify
    /\ LET idx == lookupRule(nodeID, ruleName)
           call == [IdleMut EXCEPT !.kind = kind, !.nodeID = nodeID,
                                   !.ruleName = ruleName]
       IN IF idx = 0
          THEN /\ mut' = [mut EXCEPT ![m] =
                            [call EXCEPT !.pc = "done", !.err = <<"rule not found">>]]
               /\ UNCHANGED notifySeqID
          ELSE /\ notifySeqID' = notifySeqID + 1
               /\ mut' = [mut EXCEPT ![m] =
                            [call EXCEPT
                               !.pc = "session",
                               !.notif = <<newNotification(notifySeqID + 1, kind,
                                             nodeID, mutate(kind, rules[nodeID][idx]))>>]]
    /\ UNCHANGED <<now, storeVars, promptVars, sessions, sessObj, streams, crashed,
                   extVars>>

\* A mutation that changes the store before it knows the send's result: C10
\* must reject it.
MutGetSession_StoreFirst(m) ==
    /\ ~crashed
    /\ mut[m].pc = "session"
    /\ rules' = IF mut[m].kind = ActionDeleteRule
                THEN RemoveRule(rules, mut[m].nodeID, mut[m].ruleName)
                ELSE updateRuleLocked(rules, mut[m].nodeID, mut[m].ruleName,
                                      mut[m].kind = ActionEnableRule)
    /\ IF mut[m].nodeID \in DOMAIN sessions
       THEN mut' = [mut EXCEPT ![m].pc = "select",
                               ![m].sess = sessions[mut[m].nodeID]]
       ELSE mut' = [mut EXCEPT ![m] = MutReturn(@, <<"node not connected">>)]
    /\ UNCHANGED <<now, nodes, stats, prompts, lastError, lastErrorAt, settings,
                   errTimers, promptVars, sessions, sessObj, notifySeqID, streams,
                   crashed, extVars>>

\* sendNotification, lines 427-432: read the node's session under sessionsMu
MutGetSession(m) ==
    /\ ~crashed
    /\ mut[m].pc = "session"
    /\ IF mut[m].nodeID \in DOMAIN sessions
       THEN mut' = [mut EXCEPT ![m].pc = "select",
                               ![m].sess = sessions[mut[m].nodeID]]
       ELSE mut' = [mut EXCEPT ![m] = MutReturn(@, <<"node not connected">>)]
    /\ UNCHANGED <<now, storeVars, promptVars, sessions, sessObj, notifySeqID,
                   streams, crashed, extVars>>

\* A sendNotification whose queue has no bound: C8 must reject it.
MutSelect_NoBound(m) ==
    /\ ~crashed
    /\ mut[m].pc = "select"
    /\ \E seen \in SendFieldReads(mut[m].sess) :
          IF seen = "nil"
          THEN /\ mut' = [mut EXCEPT ![m] = MutReturn(@, <<"notification buffer full">>)]
               /\ UNCHANGED <<sessObj, crashed>>
          ELSE IF sessObj[mut[m].sess].closed
          THEN /\ crashed' = TRUE
               /\ mut' = [mut EXCEPT ![m].pc = "panicked"]
               /\ UNCHANGED sessObj
          ELSE /\ sessObj' = [sessObj EXCEPT
                                 ![mut[m].sess].buf = Append(@, mut[m].notif[1]),
                                 ![mut[m].sess].accepted = Append(@, mut[m].notif[1].Id)]
               /\ mut' = [mut EXCEPT ![m].pc = "apply"]
               /\ UNCHANGED crashed
    /\ UNCHANGED <<now, storeVars, promptVars, sessions, notifySeqID, streams, extVars>>

\* sendNotification, lines 433-438: the select on sess.send with a default.  A
\* nil channel is never ready; a send on a closed channel panics.
MutSelect(m) ==
    /\ ~crashed
    /\ mut[m].pc = "select"
    /\ \E seen \in SendFieldReads(mut[m].sess) :
          IF seen = "nil"
          THEN /\ mut' = [mut EXCEPT ![m] = MutReturn(@, <<"notification buffer full">>)]
               /\ UNCHANGED <<sessObj, crashed>>
          ELSE IF sessObj[mut[m].sess].closed
          THEN /\ crashed' = TRUE
               /\ mut' = [mut EXCEPT ![m].pc = "panicked"]
               /\ UNCHANGED sessObj
          ELSE IF Len(sessObj[mut[m].sess].buf) < sendCapacity
          THEN /\ sessObj' = [sessObj EXCEPT
                                 ![mut[m].sess].buf = Append(@, mut[m].notif[1]),
                                 ![mut[m].sess].accepted = Append(@, mut[m].notif[1].Id)]
               /\ mut' = [mut EXCEPT ![m].pc = "apply"]
               /\ UNCHANGED crashed
          ELSE /\ mut' = [mut EXCEPT ![m] = MutReturn(@, <<"notification buffer full">>)]
               /\ UNCHANGED <<sessObj, crashed>>
    /\ UNCHANGED <<now, storeVars, promptVars, sessions, notifySeqID, streams, extVars>>

\* enqueueRuleAction lines 410-413 / DeleteRule lines 393-394: the send
\* succeeded, now change the store
MutApply(m) ==
    /\ ~crashed
    /\ mut[m].pc = "apply"
    /\ rules' = IF mut[m].kind = ActionDeleteRule
                THEN RemoveRule(rules, mut[m].nodeID, mut[m].ruleName)
                ELSE updateRuleLocked(rules, mut[m].nodeID, mut[m].ruleName,
                                      mut[m].kind = ActionEnableRule)
    /\ stats' = IF lookupRule(mut[m].nodeID, mut[m].ruleName) # 0
                THEN syncRuleCountLocked(stats, rules', mut[m].nodeID)
                ELSE stats
    /\ mut' = [mut EXCEPT ![m] = MutReturn(@, NoErr)]
    /\ UNCHANGED <<now, nodes, prompts, lastError, lastErrorAt, settings, errTimers,
                   promptVars, sessions, sessObj, notifySeqID, streams, crashed,
                   extVars>>

(***************************************************************************)
(* Specification of the outbound queues: two subscribed daemons open and   *)
(* close their Notifications streams while the UI goroutine enables,       *)
(* disables and deletes rules.  Nothing drains the queues: the dispatch    *)
(* goroutines make no progress, which is the case of a slow or dead daemon *)
(* that the bounded queue exists for.                                      *)
(***************************************************************************)
\* the store after Subscribe from both daemons
SubscribedNode(nodeID) ==
    [nodeFromContext(nodeID) EXCEPT !.Message = "subscribed",
                                    !.Status = NodeStatusReady]

InitQueue ==
    /\ now = StartTime
    /\ nodes = <<SubscribedNode("n1"), SubscribedNode("n2")>>
    /\ rules = [n \in Nodes |-> convertRules(CfgRules, n)]
    /\ stats = [NodeID |-> "n1", Rules |-> Len(CfgRules)]
    /\ prompts = <<>>
    /\ lastError = EmptyStr
    /\ lastErrorAt = ZeroTime
    /\ settings = DefaultSettings
    /\ errTimers = {}
    /\ pending = [k \in {} |-> 0]
    /\ ask = [c \in AskCalls |-> IdleAsk]
    /\ res = [r \in ResolveCalls |-> IdleResolve]
    /\ InitSessionVars
    /\ crashed = FALSE
    /\ InitExt

\* the calls the UI makes: every kind of mutation, a rule that exists and one
\* that does not
MutInputs ==
    { <<ActionEnableRule, "n1", "ssh">>, <<ActionDeleteRule, "n1", "ssh">>,
      <<ActionDeleteRule, "n2", "ssh">>, <<ActionDisableRule, "n2", "web">> }

\* the daemon that opens the k-th stream
StreamNode(k) == IF k % 2 = 1 THEN "n1" ELSE "n2"

\* the streams of the specifications in which each daemon connects at most
\* twice
TwoStreams == {1, 2}

\* one step of the registry and of the mutations of the callers MS
QueueStep(MS) ==
    \/ \E k \in TwoStreams : NotificationsOpen(k, StreamNode(k))
    \/ \E k \in TwoStreams : NotificationsPoll(k)
    \/ \E k \in TwoStreams : NotificationsRecv(k, "eof")
    \/ \E k \in TwoStreams : UnregisterLocked(k)
    \/ \E k \in TwoStreams : UnregisterClose(k)
    \/ \E m \in MS, in \in MutInputs : MutLookup(m, in[1], in[2], in[3])
    \/ \E m \in MS : MutGetSession(m)
    \/ \E m \in MS : MutSelect(m)
    \/ \E m \in MS : MutApply(m)

\* the UI goroutine calls the controller synchronously: one call at a time
NextQueue == QueueStep({1})

SpecQueue == InitQueue /\ [][NextQueue]_vars

(***************************************************************************)
(* Specification of concurrent rule mutations: two callers enable, disable *)
(* and delete the one rule of n1 while n1's daemon subscribes again and    *)
(* opens and ends its Notifications stream.                                *)
(***************************************************************************)
\* notifications created in one behaviour
MaxRuleCalls == 3

MutateInputs ==
    { <<ActionEnableRule, "n1", "ssh">>, <<ActionDisableRule, "n1", "ssh">>,
      <<ActionDeleteRule, "n1", "ssh">> }

NextMutate ==
    \/ Subscribe("n1")
    \/ NotificationsOpen(1, "n1")
    \/ NotificationsPoll(1)
    \/ NotificationsRecv(1, "eof")
    \/ UnregisterLocked(1)
    \/ UnregisterClose(1)
    \/ \E m \in Mutators, in \in MutateInputs :
          notifySeqID < MaxRuleCalls /\ MutLookup(m, in[1], in[2], in[3])
    \/ \E m \in Mutators : MutGetSession(m)
    \/ \E m \in Mutators : MutSelect(m)
    \/ \E m \in Mutators : MutApply(m)

SpecMutate == InitQueue /\ [][NextMutate]_vars

(***************************************************************************)
(* Specification of dispatch: n1's daemon opens two Notifications streams, *)
(* the second replacing the first, each with its dispatch goroutine, while *)
(* the UI goroutine enables and disables n1's rule.                        *)
(***************************************************************************)
DispatchInputs ==
    { <<ActionEnableRule, "n1", "ssh">>, <<ActionDisableRule, "n1", "ssh">> }

\* Specification of concurrent toggles: two callers enable and disable the
\* one rule of n1 over the session of n1's stream, which stays open; nothing
\* drains the queue, so that it shows the order of the sends.
NextToggle ==
    \/ NotificationsOpen(1, "n1")
    \/ \E m \in Mutators, in \in DispatchInputs :
          notifySeqID < MaxRuleCalls /\ MutLookup(m, in[1], in[2], in[3])
    \/ \E m \in Mutators : MutGetSession(m)
    \/ \E m \in Mutators : MutSelect(m)
    \/ \E m \in Mutators : MutApply(m)

SpecToggle == InitQueue /\ [][NextToggle]_vars

\* one step of the streams' handlers and dispatch goroutines and of the caller
DispatchStep ==
    \/ \E k \in TwoStreams : NotificationsOpen(k, "n1")
    \/ \E k \in TwoStreams : DispatchStart(k)
    \/ \E k \in TwoStreams : DispatchReceive(k)
    \/ \E k \in TwoStreams : DispatchSent(k)
    \/ \E k \in TwoStreams : DispatchClosed(k)
    \/ \E k \in TwoStreams : NotificationsPoll(k)
    \/ \E k \in TwoStreams : NotificationsRecv(k, "eof")
    \/ \E k \in TwoStreams : UnregisterLocked(k)
    \/ \E k \in TwoStreams : UnregisterClose(k)
    \/ \E in \in DispatchInputs :
          notifySeqID < MaxRuleCalls /\ MutLookup(1, in[1], in[2], in[3])
    \/ MutGetSession(1)
    \/ MutSelect(1)
    \/ MutApply(1)

NextDispatch ==
    \/ DispatchStep
    \/ \E k \in TwoStreams : DispatchSendFail(k)

SpecDispatch == InitQueue /\ [][NextDispatch]_vars

\* the scheduler runs every dispatch goroutine that can take a step, and the
\* transport takes every notification handed to stream.Send
FairDispatch ==
    \A k \in Streams :
        /\ WF_vars(DispatchStart(k))
        /\ WF_vars(DispatchReceive(k))
        /\ WF_vars(DispatchSent(k))
        /\ WF_vars(DispatchClosed(k))

SpecDispatchFair == InitQueue /\ [][DispatchStep]_vars /\ FairDispatch

(***************************************************************************)
(* Specification of repeated registration: n1's daemon opens its           *)
(* Notifications stream three times, every stream with its dispatch        *)
(* goroutine, while the UI goroutine enables and disables n1's rule.       *)
(***************************************************************************)
\* notifications created in one behaviour of this specification
MaxReplaceCalls == 1

\* the k-th Notifications call is the k-th to reach registerSession
OpensInOrder(k) == IF k = 1 THEN TRUE ELSE streams[k - 1].pc # "idle"

NextReplace ==
    \/ \E k \in Streams : OpensInOrder(k) /\ NotificationsOpen(k, "n1")
    \/ \E k \in Streams : DispatchStart(k)
    \/ \E k \in Streams : DispatchReceive(k)
    \/ \E k \in Streams : DispatchSent(k)
    \/ \E k \in Streams : DispatchClosed(k)
    \/ \E k \in Streams : NotificationsPoll(k)
    \/ \E k \in Streams : NotificationsRecv(k, "eof")
    \/ \E k \in Streams : UnregisterLocked(k)
    \/ \E k \in Streams : UnregisterClose(k)
    \/ \E in \in DispatchInputs :
          notifySeqID < MaxReplaceCalls /\ MutLookup(1, in[1], in[2], in[3])
    \/ MutGetSession(1)
    \/ MutSelect(1)
    \/ MutApply(1)

SpecReplace == InitQueue /\ [][NextReplace]_vars

(***************************************************************************)
(* Specification of a stream's end: n1's daemon opens two Notifications    *)
(* streams, the second possibly replacing the first; the daemon replies,   *)
(* closes the stream or the transport fails, in Recv and in Send, while    *)
(* the UI goroutine enables and disables n1's rule.                        *)
(***************************************************************************)
\* what stream.Recv can return
RecvOutcomes == {"reply", "eof", "error"}

\* notifications created in one behaviour of this specification
MaxEndCalls == 2

\* one step of the streams' handlers and dispatch goroutines and of the caller
EndStep ==
    \/ \E k \in TwoStreams : OpensInOrder(k) /\ NotificationsOpen(k, "n1")
    \/ \E k \in TwoStreams : DispatchStart(k)
    \/ \E k \in TwoStreams : DispatchReceive(k)
    \/ \E k \in TwoStreams : DispatchSent(k)
    \/ \E k \in TwoStreams : DispatchSendFail(k)
    \/ \E k \in TwoStreams : DispatchClosed(k)
    \/ \E k \in TwoStreams : NotificationsPoll(k)
    \/ \E k \in TwoStreams, outcome \in RecvOutcomes : NotificationsRecv(k, outcome)
    \/ \E k \in TwoStreams : UnregisterLocked(k)
    \/ \E k \in TwoStreams : UnregisterClose(k)
    \/ \E in \in DispatchInputs :
          notifySeqID < MaxEndCalls /\ MutLookup(1, in[1], in[2], in[3])
    \/ MutGetSession(1)
    \/ MutSelect(1)
    \/ MutApply(1)

NextEnd == EndStep

SpecEnd == InitQueue /\ [][NextEnd]_vars

\* the scheduler runs every goroutine that can take a step, and every
\* stream.Recv returns: the daemon replies to what it is sent, closes the
\* stream or loses the connection
FairEnd ==
    \A k \in TwoStreams :
        /\ WF_vars(DispatchStart(k))
        /\ WF_vars(DispatchReceive(k))
        /\ WF_vars(DispatchSent(k) \/ DispatchSendFail(k))
        /\ WF_vars(DispatchClosed(k))
        /\ WF_vars(NotificationsPoll(k))
        /\ WF_vars(\E outcome \in RecvOutcomes : NotificationsRecv(k, outcome))
        /\ WF_vars(UnregisterLocked(k))
        /\ WF_vars(UnregisterClose(k))

SpecEndFair == InitQueue /\ [][NextEnd]_vars /\ FairEnd

(***************************************************************************)
(* Specification of the store's copies: callers pass slices they built to  *)
(* the mutators, take snapshots, and then write through what they hold.    *)
(***************************************************************************)
\* the state after NewStore and New
InitNew ==
    /\ now = StartTime
    /\ nodes = <<>>
    /\ rules = [n \in {} |-> <<>>]
    /\ stats = ZeroStats
    /\ prompts = <<>>
    /\ lastError = EmptyStr
    /\ lastErrorAt = ZeroTime
    /\ settings = DefaultSettings
    /\ errTimers = {}
    /\ pending = [k \in {} |-> 0]
    /\ ask = [c \in AskCalls |-> IdleAsk]
    /\ res = [r \in ResolveCalls |-> IdleResolve]
    /\ InitSessionVars
    /\ crashed = FALSE
    /\ InitAlerts
    /\ InitSubVars
    /\ InitHeapVars

InitEmpty == InitNew /\ InitProbe

(***************************************************************************)
(* Pause and resume of a pending prompt.  The server that implements       *)
(* PausePrompt and ResumePrompt is not among the source files (server.go   *)
(* is the variant without them; its test, TestPauseResumePromptUpdatesStore,*)
(* is).  The coordinator below is written from the specification, section  *)
(* 4.4: RequestPrompt, the three ways a wait ends, Pause and Resume.       *)
(* Store.UpdatePrompt is the code's.                                       *)
(***************************************************************************)
\* the clock of this specification stops here
MaxPauseClock == 5
\* pauses of one prompt in one behaviour
MaxCycles == 2

\* the ids Pause and Resume are called with: the two prompts' and one that
\* was never issued
PromptIDOf(c) == <<"prompt", c>>
PauseIDs == {PromptIDOf(c) : c \in AskCalls \cup {0}}

PromptNotFound == <<"prompt not found">>
AlreadyPaused == <<"prompt already paused">>
NotPaused == <<"prompt not paused">>

\* the last Pause or Resume call and its result.  A call that finds nothing
\* to do is a no-op or an explicit error: both are allowed for.
Acted(op, id) == [op |-> op, id |-> id, acted |-> TRUE, err |-> NoErr]
Refused(op, id, err) ==
    {[op |-> op, id |-> id, acted |-> FALSE, err |-> e] : e \in {NoErr, err}}

\* a request of the coordinator: the position of the waiting call, its timer
\* (running or stopped, and the instant it fires), and what has happened to
\* it: the timeout it was given, the time it has waited with the clock
\* running, and its pauses
IdleRequest == [pc |-> "idle", id |-> "", timerOn |-> FALSE, timerAt |-> 0,
                via |-> "", timeout |-> 0, waited |-> 0, cycles |-> 0]

\* what this specification leaves alone
pauseFrame == <<nodes, rules, stats, lastError, lastErrorAt, settings, errTimers,
                res, sessVars, crashed, alerts, alertsAdded, subVars, heapVars>>

\* Store.UpdatePrompt(id, fn), fn assigning the fields of the record set: the
\* prompt list afterwards
UpdatePrompt(ps, id, set) ==
    IF PromptIndex(ps, id) = 0 THEN ps
    ELSE [ps EXCEPT ![PromptIndex(ps, id)] =
             [f \in DOMAIN @ |-> IF f \in DOMAIN set THEN set[f] ELSE @[f]]]

\* the prompt with this id in the store
PromptOf(ps, id) == ps[PromptIndex(ps, id)]

\* the prompt is pending and marked paused
IsPaused(id) ==
    /\ id \in DOMAIN pending
    /\ PromptIndex(prompts, id) # 0
    /\ PromptOf(prompts, id).Paused

\* RequestPrompt: create the prompt with ExpiresAt = now + timeout, store it,
\* start the timer, register the request
RequestPrompt(c) ==
    /\ ~crashed
    /\ ask[c].pc = "idle"
    /\ LET timeout == settings.PromptTimeout
           prompt == [ID |-> PromptIDOf(c), NodeID |-> "n1", RequestedAt |-> now,
                      ExpiresAt |-> now + timeout, Paused |-> FALSE, Remaining |-> 0]
       IN /\ prompts' = Append(prompts, prompt)
          /\ pending' = registerPrompt(prompt.ID, c)
          /\ ask' = [ask EXCEPT ![c] = [IdleRequest EXCEPT !.pc = "waiting",
                                                          !.id = prompt.ID,
                                                          !.timerOn = TRUE,
                                                          !.timerAt = now + timeout,
                                                          !.timeout = timeout]]
    /\ UNCHANGED <<now, probe, pauseFrame>>

\* the wait ends: the prompt leaves the store and the request the registry
EndWait(c, via) ==
    /\ prompts' = RemovePrompt(prompts, ask[c].id)
    /\ pending' = unregisterPrompt(ask[c].id)
    /\ ask' = [ask EXCEPT ![c].pc = "done", ![c].via = via, ![c].timerOn = FALSE,
                          ![c].timerAt = 0]
    /\ UNCHANGED <<now, probe, pauseFrame>>

\* the timer fires before Resolve
TimerFires(c) ==
    /\ ~crashed
    /\ ask[c].pc = "waiting"
    /\ ask[c].timerOn
    /\ now >= ask[c].timerAt
    /\ EndWait(c, "timer")

\* Resolve fills the response slot, or the caller's context ends
WaitEnds(c, via) ==
    /\ ~crashed
    /\ ask[c].pc = "waiting"
    /\ via \in {"response", "ctx"}
    /\ EndWait(c, via)

\* A Pause that marks the prompt and leaves its timer running: C23 must
\* reject it.
PausePrompt_TimerRuns(id) ==
    /\ ~crashed
    /\ id \in DOMAIN pending
    /\ ~IsPaused(id)
    /\ ask[pending[id]].cycles < MaxCycles
    /\ ask' = [ask EXCEPT ![pending[id]].cycles = @ + 1]
    /\ prompts' = UpdatePrompt(prompts, id,
                     [Paused |-> TRUE,
                      Remaining |-> PromptOf(prompts, id).ExpiresAt - now])
    /\ probe' = Acted("PausePrompt", id)
    /\ UNCHANGED <<now, pending, pauseFrame>>

\* A Pause that computes Remaining again on a prompt that is paused already:
\* C25 must reject it.
PausePrompt_Recompute(id) ==
    /\ ~crashed
    /\ IF id \notin DOMAIN pending
       THEN /\ probe' \in Refused("PausePrompt", id, PromptNotFound)
            /\ UNCHANGED <<prompts, ask>>
       ELSE /\ ~IsPaused(id) => ask[pending[id]].cycles < MaxCycles
            /\ ask' = [ask EXCEPT ![pending[id]].timerOn = FALSE,
                                  ![pending[id]].cycles =
                                      IF IsPaused(id) THEN @ ELSE @ + 1]
            /\ prompts' = UpdatePrompt(prompts, id,
                             [Paused |-> TRUE,
                              Remaining |-> PromptOf(prompts, id).ExpiresAt - now])
            /\ probe' = Acted("PausePrompt", id)
    /\ UNCHANGED <<now, pending, pauseFrame>>

\* Pause(promptID): a no-op or an error for a prompt that is not pending or
\* is paused already; otherwise stop the timer, compute Remaining =
\* ExpiresAt - now and mark the prompt Paused with it
PausePrompt(id) ==
    /\ ~crashed
    /\ IF id \notin DOMAIN pending
       THEN /\ probe' \in Refused("PausePrompt", id, PromptNotFound)
            /\ UNCHANGED <<prompts, ask>>
       ELSE IF IsPaused(id)
       THEN /\ probe' \in Refused("PausePrompt", id, AlreadyPaused)
            /\ UNCHANGED <<prompts, ask>>
       ELSE /\ ask[pending[id]].cycles < MaxCycles
            /\ ask' = [ask EXCEPT ![pending[id]].timerOn = FALSE,
                                  ![pending[id]].cycles = @ + 1]
            /\ prompts' = UpdatePrompt(prompts, id,
                             [Paused |-> TRUE,
                              Remaining |-> PromptOf(prompts, id).ExpiresAt - now])
            /\ probe' = Acted("PausePrompt", id)
    /\ UNCHANGED <<now, pending, pauseFrame>>

\* A Resume that gives the prompt its whole timeout again: C24 must reject it.
ResumePrompt_FullTimeout(id) ==
    /\ ~crashed
    /\ IsPaused(id)
    /\ ask' = [ask EXCEPT ![pending[id]].timerOn = TRUE,
                          ![pending[id]].timerAt = now + ask[pending[id]].timeout]
    /\ prompts' = UpdatePrompt(prompts, id,
                     [ExpiresAt |-> now + ask[pending[id]].timeout,
                      Paused |-> FALSE, Remaining |-> 0])
    /\ probe' = Acted("ResumePrompt", id)
    /\ UNCHANGED <<now, pending, pauseFrame>>

\* Resume(promptID): a no-op or an error for a prompt that is not pending or
\* is not paused; otherwise ExpiresAt = now + Remaining, Paused and
\* Remaining are cleared and the timer is started again for that duration
ResumePrompt(id) ==
    /\ ~crashed
    /\ IF id \notin DOMAIN pending
       THEN /\ probe' \in Refused("ResumePrompt", id, PromptNotFound)
            /\ UNCHANGED <<prompts, ask>>
       ELSE IF ~IsPaused(id)
       THEN /\ probe' \in Refused("ResumePrompt", id, NotPaused)
            /\ UNCHANGED <<prompts, ask>>
       ELSE /\ ask' = [ask EXCEPT ![pending[id]].timerOn = TRUE,
                                  ![pending[id]].timerAt =
                                      now + PromptOf(prompts, id).Remaining]
            /\ prompts' = UpdatePrompt(prompts, id,
                             [ExpiresAt |-> now + PromptOf(prompts, id).Remaining,
                              Paused |-> FALSE, Remaining |-> 0])
            /\ probe' = Acted("ResumePrompt", id)
    /\ UNCHANGED <<now, pending, pauseFrame>>

\* a timer that has reached its instant is served before time passes
TimerDue(c) == ask[c].pc = "waiting" /\ ask[c].timerOn /\ now >= ask[c].timerAt

\* time passes: a call that waits with its timer running has waited one unit
\* more
PauseTick ==
    /\ ~crashed
    /\ now < MaxPauseClock
    /\ \A c \in AskCalls : ~TimerDue(c)
    /\ now' = now + 1
    /\ ask' = [c \in AskCalls |->
                 IF ask[c].pc = "waiting" /\ ask[c].timerOn
                 THEN [ask[c] EXCEPT !.waited = @ + 1] ELSE ask[c]]
    /\ UNCHANGED <<prompts, pending, probe, pauseFrame>>

InitPause ==
    /\ InitNew
    /\ InitProbe

NextPause ==
    \/ \E c \in AskCalls : RequestPrompt(c)
    \/ \E c \in AskCalls : TimerFires(c)
    \/ \E c \in AskCalls, via \in {"response", "ctx"} : WaitEnds(c, via)
    \/ \E id \in PauseIDs : PausePrompt(id)
    \/ \E id \in PauseIDs : ResumePrompt(id)
    \/ PauseTick

SpecPause == InitPause /\ [][NextPause]_vars

NextAlias ==
    \/ \E shape \in RuleShapes : CallSetRules("node-1", shape)
    \/ \E shape \in RuleShapes : CallAddRule("node-1", shape)
    \/ CallAddPrompt
    \/ CallSetStats
    \/ CallSetNodes
    \/ CallSnapshot
    \/ \E i \in 1 .. MaxStoreCalls, a \in 1 .. Len(heap), j \in CellIndexes,
          whole \in BOOLEAN : CallerWrites(i, a, j, whole)

SpecAlias == InitEmpty /\ [][NextAlias]_vars

(***************************************************************************)
(* Specification of node upserts: every call carries the same ID and any   *)
(* combination of empty and non-empty fields.                              *)
(***************************************************************************)
UpsertInputs ==
    [ID : {"node-1"}, Name : {"", "alpha", "beta"}, Address : {"", "10.0.0.1"},
     Version : {"", "1.0.0"}, FirewallEnabled : BOOLEAN,
     Status : {"", NodeStatusReady, NodeStatusError}, Message : {"", "ready"},
     LastSeen : {ZeroTime, StartTime}]

NextNodes == \E node \in UpsertInputs : UpsertNode(node)

SpecNodes == InitEmpty /\ [][NextNodes]_vars

(***************************************************************************)
(* Specification of the alert list: AddAlert called again and again, past  *)
(* the capacity.                                                           *)
(***************************************************************************)
NextAlerts == AddAlert

SpecAlerts == InitEmpty /\ [][NextAlerts]_vars

(***************************************************************************)
(* Specification of operatorForTarget: one call for every connection of a  *)
(* bounded set, each field empty or set, and every target.                 *)
(***************************************************************************)
OperatorConns ==
    [ProcessPath : {EmptyStr, CurlPath},
     ProcessArgs : {<<>>, << <<" ">> >>, << <<"c", "u", "r", "l">>, <<"-", "s">> >>},
     DstHost : {EmptyStr, ExampleHost}, DstIP : {EmptyStr, ExampleIP},
     DstPort : {0, 443}, ProcessID : {0, 42}, UserID : {0, 1000}]

PromptTargets ==
    {PromptTargetProcessPath, PromptTargetProcessCmd, PromptTargetProcessID,
     PromptTargetUserID, PromptTargetDestinationIP, PromptTargetDestinationHost,
     PromptTargetDestinationPort}

\* the seven targets and one value that is no PromptTarget
OperatorTargets == PromptTargets \cup {"unknown"}

InitOperator ==
    /\ InitNew
    /\ probe \in [op : {"operatorForTarget"},
                  arg : [conn : OperatorConns, target : OperatorTargets],
                  out : {<<>>}]

\* the call operatorForTarget(conn, target) and the pair it returns
CallOperatorForTarget ==
    /\ probe.out = <<>>
    /\ probe' = [probe EXCEPT
                    !.out = <<operatorForTarget(probe.arg.conn, probe.arg.target)>>]
    /\ UNCHANGED <<now, storeVars, promptVars, sessVars, crashed, alerts, alertsAdded,
                   subVars, heapVars>>

NextOperator == CallOperatorForTarget

SpecOperator == InitOperator /\ [][NextOperator]_vars

\* Specification of the availability test: the same connections and targets,
\* given to targetAvailable and to operatorForTarget, in either order.
InitAvailable ==
    /\ InitNew
    /\ probe \in [op : {"targetAvailable"},
                  arg : [conn : OperatorConns, target : OperatorTargets],
                  avail : {<<>>}, out : {<<>>}]

\* the call targetAvailable(conn, target) and what it returns
CallTargetAvailable ==
    /\ probe.avail = <<>>
    /\ probe' = [probe EXCEPT
                    !.avail = <<targetAvailable(probe.arg.conn, probe.arg.target)>>]
    /\ UNCHANGED <<now, storeVars, promptVars, sessVars, crashed, alerts, alertsAdded,
                   subVars, heapVars>>

NextAvailable == CallTargetAvailable \/ CallOperatorForTarget

SpecAvailable == InitAvailable /\ [][NextAvailable]_vars

(***************************************************************************)
(* Specification of the wake-ups: subscribers that receive and re-read the *)
(* snapshot, and mutators that change nodes and statistics.                *)
(***************************************************************************)
StatusInputs == {NodeStatusReady, NodeStatusError}
StatsInputs == {[NodeID |-> "", Rules |-> 1], [NodeID |-> "", Rules |-> 2]}

NextStore ==
    \/ Subscribe_Store
    \/ \E id \in Nodes, status \in StatusInputs :
          UpdateNodeStatus_Store(id, status, "connected")
    \/ SetStats([NodeID |-> "", Rules |-> 1])
    \/ \E i \in 1 .. MaxSubs : ReceiveEvent(i)
    \/ \E i \in 1 .. MaxSubs : ReadSnapshot(i)

SpecStore == InitEmpty /\ [][NextStore]_vars

(***************************************************************************)
(* Specification of Close: every subscription is closed up to MaxCloses    *)
(* times, one call after the other, while SetStats notifies.               *)
(***************************************************************************)
NextClose ==
    \/ Subscribe_Store
    \/ \E st \in StatsInputs : SetStats(st)
    \/ \E i \in 1 .. MaxSubs : ReceiveEvent(i)
    \/ \E i \in 1 .. MaxSubs : ReadSnapshot(i)
    \/ \E i \in 1 .. MaxSubs : Close(i)
    \/ \E i \in 1 .. MaxSubs : removeSubscription(i)
    \/ \E i \in 1 .. MaxSubs : CloseReturn(i)

SpecClose == InitEmpty /\ [][NextClose]_vars

(***************************************************************************)
(* Specification of buildRuleFromDecision: one call for every decision of  *)
(* a bounded set, with valid, empty and unknown actions and durations.     *)
(***************************************************************************)
ActionInputs == {"", PromptActionAllow, PromptActionDeny, PromptActionReject,
                 "ask", "ALLOW", "drop"}
DurationInputs == {"", PromptDurationOnce, PromptDurationUntilRestart,
                   PromptDurationAlways, "until-restart", "forever", "30s"}
TargetInputs == {"", PromptTargetProcessPath, PromptTargetDestinationHost}

DecisionInputs ==
    [PromptID : {<<"n1", StartTime>>}, Action : ActionInputs,
     Duration : DurationInputs, Target : TargetInputs]

InitBuildRule ==
    /\ InitNew
    /\ probe \in [op : {"buildRuleFromDecision"},
                  arg : [prompt : {[NoPrompt EXCEPT !.Connection = c] : c \in PromptConns},
                         decision : DecisionInputs],
                  out : {<<>>}]

\* the call buildRuleFromDecision(prompt, decision) and the pair it returns
CallBuildRuleFromDecision ==
    /\ probe.out = <<>>
    /\ probe' = [probe EXCEPT
                    !.out = <<buildRuleFromDecision(probe.arg.prompt,
                                                    probe.arg.decision, now)>>]
    /\ UNCHANGED <<now, storeVars, promptVars, sessVars, crashed, alerts, alertsAdded,
                   subVars, heapVars>>

NextBuildRule == CallBuildRuleFromDecision

SpecBuildRule == InitBuildRule /\ [][NextBuildRule]_vars

(***************************************************************************)
(* Specification of bestAvailableTarget: one call for every connection of  *)
(* OperatorConns.                                                          *)
(***************************************************************************)
InitBestTarget ==
    /\ InitNew
    /\ probe \in [op : {"bestAvailableTarget"}, arg : [conn : OperatorConns],
                  out : {<<>>}]

\* the call bestAvailableTarget(conn) and the target it returns
CallBestAvailableTarget ==
    /\ probe.out = <<>>
    /\ probe' = [probe EXCEPT !.out = <<bestAvailableTarget(probe.arg.conn)>>]
    /\ UNCHANGED <<now, storeVars, promptVars, sessVars, crashed, alerts, alertsAdded,
                   subVars, heapVars>>

NextBestTarget == CallBestAvailableTarget

SpecBestTarget == InitBestTarget /\ [][NextBestTarget]_vars

(***************************************************************************)
(* Specification of the decision on timeout: defaultPromptDecision and     *)
(* buildRuleFromDecision for every connection of OperatorConns and every   *)
(* configured default target, the empty and an unknown one included.       *)
(***************************************************************************)
TimeoutSettings ==
    {[DefaultSettings EXCEPT !.DefaultPromptTarget = t] :
        t \in OperatorTargets \cup {""}}

InitTimeoutDecision ==
    /\ InitNew
    /\ probe \in [op : {"defaultPromptDecision"},
                  arg : [conn : OperatorConns, settings : TimeoutSettings],
                  out : {<<>>}]

\* AskRule, lines 250-252: the decision and the rule of the timeout path
CallDefaultPromptDecision ==
    /\ probe.out = <<>>
    /\ LET prompt == [NoPrompt EXCEPT !.Connection = probe.arg.conn]
           decision == defaultPromptDecision(prompt, probe.arg.settings)
       IN  probe' = [probe EXCEPT
                        !.out = <<[decision |-> decision,
                                   built |-> buildRuleFromDecision(prompt, decision,
                                                                   now)]>>]
    /\ UNCHANGED <<now, storeVars, promptVars, sessVars, crashed, alerts, alertsAdded,
                   subVars, heapVars>>

NextTimeoutDecision == CallDefaultPromptDecision

SpecTimeoutDecision == InitTimeoutDecision /\ [][NextTimeoutDecision]_vars

(***************************************************************************)
(* Specification of the rule lists and the derived counter: callers set,   *)
(* add, update and remove rules of nodes, with names that exist and names  *)
(* that do not, while SetStats changes the tracked node and the counter.   *)
(***************************************************************************)
\* rules one node's list holds at most
MaxRulesPerNode == 2

\* the node ids callers pass: the empty id and two nodes
RuleNodeInputs == {"", "n1", "n2"}
\* what SetStats is given: no tracked node, or n1 with the daemon's own count
RuleStatsInputs == {[NodeID |-> "", Rules |-> 0], [NodeID |-> "n1", Rules |-> 0],
                    [NodeID |-> "n1", Rules |-> 5]}
\* a rule as AddRule is given it
WebRule == [NodeID |-> "", Name |-> "web", Action |-> "deny", Duration |-> "once",
            Enabled |-> TRUE,
            Operator |-> simpleOperator("dest.port", <<"8", "0">>), CreatedAt |-> 0]

\* the call a behaviour made last: the mutator, its node and what it returned
\* (SetRules and AddRule return nothing: they always mutate); flip tells two
\* equal calls in a row apart
RuleCall(op, nodeID, ok) ==
    [op |-> op, nodeID |-> nodeID, ok |-> ok,
     flip |-> IF probe = <<>> THEN FALSE ELSE ~probe.flip]

\* what the four rule mutators leave alone
rulesFrame == <<now, nodes, prompts, lastError, lastErrorAt, settings, errTimers,
                promptVars, sessVars, alerts, alertsAdded, subs, watch, heapVars>>

\* Store.SetRules(nodeID, rules)
SetRules_Store(nodeID, list) ==
    /\ ~crashed
    /\ rules' = SetRules(rules, nodeID, list)
    /\ stats' = syncRuleCountLocked(stats, rules', nodeID)
    /\ notifyLocked
    /\ probe' = RuleCall("SetRules", nodeID, TRUE)
    /\ UNCHANGED rulesFrame

\* Store.AddRule(nodeID, rule)
AddRule_Store(nodeID, rule) ==
    /\ ~crashed
    /\ Len(RulesOf(rules, nodeID)) < MaxRulesPerNode
    /\ rules' = AddRule(rules, nodeID, rule)
    /\ stats' = syncRuleCountLocked(stats, rules', nodeID)
    /\ notifyLocked
    /\ probe' = RuleCall("AddRule", nodeID, TRUE)
    /\ UNCHANGED rulesFrame

\* Store.UpdateRule(nodeID, ruleName, fn) with fn setting Enabled: nothing
\* happens, and false is returned, when the node has no such rule
UpdateRule_Store(nodeID, ruleName, enabled) ==
    /\ ~crashed
    /\ IF RuleIndex(RulesOf(rules, nodeID), ruleName) = 0
       THEN /\ probe' = RuleCall("UpdateRule", nodeID, FALSE)
            /\ UNCHANGED <<rules, stats, subObj, crashed>>
       ELSE /\ rules' = updateRuleLocked(rules, nodeID, ruleName, enabled)
            /\ stats' = syncRuleCountLocked(stats, rules', nodeID)
            /\ notifyLocked
            /\ probe' = RuleCall("UpdateRule", nodeID, TRUE)
    /\ UNCHANGED rulesFrame

\* Store.RemoveRule(nodeID, ruleName): nothing happens, and false is returned,
\* when the node has no such rule
RemoveRule_Store(nodeID, ruleName) ==
    /\ ~crashed
    /\ IF RuleIndex(RulesOf(rules, nodeID), ruleName) = 0
       THEN /\ probe' = RuleCall("RemoveRule", nodeID, FALSE)
            /\ UNCHANGED <<rules, stats, subObj, crashed>>
       ELSE /\ rules' = RemoveRule(rules, nodeID, ruleName)
            /\ stats' = syncRuleCountLocked(stats, rules', nodeID)
            /\ notifyLocked
            /\ probe' = RuleCall("RemoveRule", nodeID, TRUE)
    /\ UNCHANGED rulesFrame

NextRules ==
    \/ \E st \in RuleStatsInputs : SetStats(st)
    \/ \E n \in RuleNodeInputs :
          \E list \in {<<>>, convertRules(CfgRules, n)} : SetRules_Store(n, list)
    \/ \E n \in RuleNodeInputs : AddRule_Store(n, WebRule)
    \/ \E n \in RuleNodeInputs, name \in RuleNames, enabled \in BOOLEAN :
          UpdateRule_Store(n, name, enabled)
    \/ \E n \in RuleNodeInputs, name \in RuleNames : RemoveRule_Store(n, name)

SpecRules == InitEmpty /\ [][NextRules]_vars

(***************************************************************************)
(* Specification of the displayed error: errors are set and cleared while  *)
(* time passes and the expireError goroutines run, on time or late.        *)
(***************************************************************************)
ErrMessages == {<<"e1">>, <<"e2">>}

NextError ==
    \/ \E msg \in ErrMessages : SetError(msg)
    \/ ClearError
    \/ \E t \in 0 .. MaxClock : ExpireError(t)
    \/ ErrorTick

SpecError == InitEmpty /\ [][NextError]_vars

(***************************************************************************)
(* Specification of the prompt coordinator                                 *)
(***************************************************************************)
InitPrompt ==
    /\ now = StartTime
    /\ nodes = <<>>
    /\ rules = [n \in {} |-> <<>>]
    /\ stats = [NodeID |-> "n1", Rules |-> 0]
    /\ prompts = <<>>
    /\ lastError = EmptyStr
    /\ lastErrorAt = ZeroTime
    /\ settings \in PromptSettings
    /\ errTimers = {}
    /\ pending = [k \in {} |-> 0]
    /\ ask = [c \in AskCalls |-> IdleAsk]
    /\ res = [r \in ResolveCalls |-> IdleResolve]
    /\ InitSessionVars
    /\ crashed = FALSE
    /\ InitExt

\* one step of the prompt coordinator and its callers; RS are the ResolvePrompt
\* calls the UI goroutine makes, one after the other
PromptStep(RS) ==
    \/ Tick
    \/ \E t \in 0 .. MaxClock : ExpireError(t)
    \/ \E c \in AskCalls, n \in Nodes, conn \in PromptConns :
          /\ \A k \in 1 .. (c - 1) : ask[k].pc # "idle"
          /\ c = 1 => n = "n1"
          /\ ClockReadOverlaps(n)
          /\ AskRuleRegister(c, n, conn)
    \/ \E c \in AskCalls : AskRuleAddPrompt(c)
    \/ \E c \in AskCalls : AskRuleResponse(c)
    \/ \E c \in AskCalls : AskRuleTimeout(c)
    \/ \E c \in AskCalls : AskRuleCancelled(c)
    \/ \E c \in AskCalls : AskRuleReturn(c)
    \/ \E c \in AskCalls : CtxCancel(c)
    \/ \E r \in RS, id \in KnownPromptIDs \cup {<<>>}, ch \in PromptChoices :
          /\ \A k \in 1 .. (r - 1) : res[k].pc = "done"
          /\ ResolveLookup(r, [PromptID |-> id, Action |-> ch.Action,
                            Duration |-> ch.Duration, Target |-> ch.Target])
    \/ \E r \in ResolveCalls : ResolveAddRule(r)
    \/ \E r \in ResolveCalls : ResolveSend(r)

FairPrompt ==
    /\ WF_vars(Tick)
    /\ \A c \in AskCalls :
          /\ WF_vars(AskRuleAddPrompt(c))
          /\ WF_vars(AskRuleResponse(c) \/ AskRuleTimeout(c) \/ AskRuleCancelled(c))
          /\ WF_vars(AskRuleReturn(c))
    /\ \A r \in ResolveCalls : WF_vars(ResolveAddRule(r)) /\ WF_vars(ResolveSend(r))

NextPrompt == PromptStep(ResolveCalls)

SpecPrompt == InitPrompt /\ [][NextPrompt]_vars

\* The same coordinator with a user who answers at most once, under the
\* scheduling the Go runtime gives: a goroutine that can run does run, a timer
\* that is due fires, a ready select case is taken.
NextPromptFair == PromptStep({1})

SpecPromptFair == InitPrompt /\ [][NextPromptFair]_vars /\ FairPrompt


(***************************************************************************)
(* Vocabulary of the claims about the prompt coordinator                   *)
(***************************************************************************)
Returned(c) == ask[c].pc \in {"returning", "done"}

\* the action and duration a rule must carry for a configured or chosen value
ExpectedAction(a) == IF a \in {"allow", "deny", "reject"} THEN a ELSE "deny"
ExpectedDuration(d) == IF d \in {"once", "until restart", "always"} THEN d ELSE "once"

\* the connection's value for a target, as written into a rule
BackingValue(conn, target) ==
    CASE target = "process.path" -> conn.ProcessPath
      [] target = "process.command" -> TrimSpace(Join(conn.ProcessArgs, <<" ">>))
      [] target = "dest.host" -> conn.DstHost
      [] target = "dest.ip" -> conn.DstIP
      [] target = "dest.port" -> IF conn.DstPort = 0 THEN EmptyStr
                                 ELSE FormatUint(conn.DstPort)
      [] target = "process.id" -> FormatUint(conn.ProcessID)
      [] target = "user.id" -> FormatUint(conn.UserID)
      [] OTHER -> EmptyStr

Populated(conn, target) == BackingValue(conn, target) # EmptyStr

\* the ResolvePrompt calls that returned nil / that added a rule, for request c
Succeeded(r) == res[r].pc = "done" /\ res[r].err = NoErr /\ res[r].req # 0
SucceededFor(c) == {r \in ResolveCalls : Succeeded(r) /\ res[r].req = c}
AddedRuleFor(c) == {r \in ResolveCalls : res[r].req = c /\ res[r].rule # <<>>}

RECURSIVE SumLen(_, _)
SumLen(rs, ns) ==
    IF ns = {} THEN 0
    ELSE LET n == CHOOSE x \in ns : TRUE IN Len(rs[n]) + SumLen(rs, ns \ {n})

\* number of rules in the store
StoredRules == SumLen(rules, DOMAIN rules)

\* no other request was given the prompt ID of request c
SoleUserOfID(c) ==
    \A k \in AskCalls \ {c} : ask[k].prompt.ID # ask[c].prompt.ID

PromptInStore(id) == \E i \in 1 .. Len(prompts) : prompts[i].ID = id

(***************************************************************************)
(* C1: when no Resolve arrives before the timer fires, AskRule returns,    *)
(* without error, a rule whose action and duration are the normalised      *)
(* Settings.DefaultPromptAction / DefaultPromptDuration (deny and once     *)
(* when unset or invalid), and LastError then holds a "prompt timed out"   *)
(* message.  Stated for the state in which the timeout path has returned.  *)
(***************************************************************************)
C1_TimeoutReturnsDefaults ==
    \A c \in AskCalls :
        (ask[c].pc = "returning" /\ ask[c].via = "timer") =>
            /\ ask[c].err = NoErr
            /\ Len(ask[c].rule) = 1
            /\ ask[c].rule[1].Action = ExpectedAction(settings.DefaultPromptAction)
            /\ ask[c].rule[1].Duration = ExpectedDuration(settings.DefaultPromptDuration)
            /\ lastError # EmptyStr
            /\ lastError[1] = "prompt timed out for"

(***************************************************************************)
(* C2: for every connection and every Settings value the timeout path of   *)
(* AskRule returns a rule and never an error.                              *)
(***************************************************************************)
C2_TimeoutAlwaysDecides ==
    \A c \in AskCalls :
        (Returned(c) /\ ask[c].via = "timer") =>
            ask[c].err = NoErr /\ Len(ask[c].rule) = 1

C4_OneRulePerResolvedPrompt ==
    /\ \A c \in AskCalls : Cardinality(SucceededFor(c)) <= 1
    /\ \A r \in ResolveCalls :
          (res[r].pc = "done" /\ res[r].err # NoErr) => res[r].rule = <<>>
    /\ (\A r \in ResolveCalls : res[r].pc \in {"idle", "done"}) =>
          StoredRules = Cardinality({c \in AskCalls : SucceededFor(c) # {}})

(***************************************************************************)
(* C5: if AskRule returns the caller's cancellation error, no rule was     *)
(* added to the State Store for that prompt and the prompt is gone from    *)
(* the store, in every interleaving with a concurrent ResolvePrompt (the   *)
(* prompt's absence is required only of a prompt ID no other request got). *)
(***************************************************************************)
C5_CancelledAddsNoRule ==
    \A c \in AskCalls :
        (Returned(c) /\ ask[c].via = "ctx") =>
            /\ AddedRuleFor(c) = {}
            /\ SoleUserOfID(c) => ~PromptInStore(ask[c].prompt.ID)

(***************************************************************************)
(* C6: once an AskRule call has returned, its prompt is absent from        *)
(* Snapshot().Prompts and from the coordinator's pending set, and it never *)
(* reappears.                                                              *)
(***************************************************************************)
C6_ReturnedPromptGone ==
    \A c \in AskCalls :
        /\ Returned(c) => ~PromptInStore(ask[c].prompt.ID)
        /\ ask[c].pc = "done" => ask[c].prompt.ID \notin DOMAIN pending

BufferFull == <<"notification buffer full">>
NotFound == <<"rule not found">>
NotConnected == <<"node not connected">>

\* mutator m takes a step
MutStep(m) == mut'[m] # mut[m]

\* mutator m returns an error in this step
MutFails(m) == MutStep(m) /\ mut'[m].pc = "done" /\ mut'[m].err # NoErr

\* the queues of the sessions that were ever registered for a node
QueuesOf(objs, nodeID) ==
    [i \in {j \in 1 .. Len(objs) : objs[j].nodeID = nodeID} |-> objs[i]]

SessionOf(ss, nodeID) == IF nodeID \in DOMAIN ss THEN ss[nodeID] ELSE 0

(***************************************************************************)
(* C8: Send never blocks its caller: both of its steps can always be       *)
(* taken; when the queue it reaches holds its capacity (8) of              *)
(* notifications Send returns "buffer full" in that step and leaves the    *)
(* queue unchanged; no queue ever holds more than its capacity.            *)
(***************************************************************************)
C8_SendNeverBlocks ==
    /\ [](\A i \in 1 .. Len(sessObj) : Len(sessObj[i].buf) <= sendCapacity)
    /\ [](\A m \in Mutators :
            ~crashed =>
               /\ mut[m].pc = "session" => ENABLED MutGetSession(m)
               /\ mut[m].pc = "select" => ENABLED MutSelect(m))
    /\ [][\A m \in Mutators :
            (/\ MutStep(m)
             /\ mut[m].pc = "select"
             /\ ~sessObj[mut[m].sess].closed
             /\ Len(sessObj[mut[m].sess].buf) = sendCapacity)
            => /\ mut'[m].pc = "done"
               /\ mut'[m].err = BufferFull
               /\ sessObj' = sessObj]_vars

\* a call for a node whose registered queue holds 8 notifications has returned
\* "buffer full"
C8_Witness ==
    \E m \in Mutators :
        /\ mut[m].pc = "done" /\ mut[m].err = BufferFull
        /\ mut[m].nodeID \in DOMAIN sessions
        /\ Len(sessObj[sessions[mut[m].nodeID]].buf) = sendCapacity
        /\ notifySeqID = sendCapacity + 1

(***************************************************************************)
(* C9: every step of a rule mutation for node A, whatever its outcome,     *)
(* leaves every other node's session, queues and rules unchanged and does  *)
(* not stop the server, so a mutation for another node can still be made.  *)
(***************************************************************************)
C9_MutationScopedToNode ==
    [][\A m \in Mutators :
         MutStep(m) =>
            /\ \A b \in Nodes \ {mut'[m].nodeID} :
                  /\ SessionOf(sessions', b) = SessionOf(sessions, b)
                  /\ QueuesOf(sessObj', b) = QueuesOf(sessObj, b)
                  /\ RulesOf(rules', b) = RulesOf(rules, b)
            /\ ~crashed']_vars

(***************************************************************************)
(* C10: if EnableRule, DisableRule or DeleteRule fails (rule not found, no *)
(* live session, buffer full) then no step of the call changed             *)
(* Snapshot().Rules; a not-found failure also creates and enqueues no      *)
(* notification.                                                           *)
(***************************************************************************)
C10_FailedMutationLeavesRules ==
    [][\A m \in Mutators :
         /\ (MutStep(m) /\ mut[m].pc # "apply") => rules' = rules
         /\ MutFails(m) =>
               /\ mut[m].pc # "apply"
               /\ mut'[m].err \in {NotFound, NotConnected, BufferFull}
         /\ (MutFails(m) /\ mut'[m].err = NotFound) =>
               /\ sessObj' = sessObj
               /\ notifySeqID' = notifySeqID]_vars

\* a DeleteRule failed for want of a session and the rule is still stored, and
\* the other node's queue holds a notification
C10_Witness ==
    \E m \in Mutators :
        /\ mut[m].pc = "done" /\ mut[m].err = NotConnected
        /\ mut[m].kind = ActionDeleteRule
        /\ lookupRule(mut[m].nodeID, mut[m].ruleName) # 0
        /\ \E i \in 1 .. Len(sessObj) : Len(sessObj[i].buf) > 0

\* mutator m's send is accepted in this step
Enqueues(m) == MutStep(m) /\ mut[m].pc = "select" /\ mut'[m].pc = "apply"

\* mutator m returns nil in this step
MutSucceeds(m) == MutStep(m) /\ mut'[m].pc = "done" /\ mut'[m].err = NoErr

\* Snapshot().Rules shows the effect of a mutation of this kind on the rule
ShowsEffect(rs, kind, nodeID, ruleName) ==
    LET idx == RuleIndex(RulesOf(rs, nodeID), ruleName)
    IN CASE kind = ActionEnableRule -> idx # 0 /\ rs[nodeID][idx].Enabled
         [] kind = ActionDisableRule -> idx # 0 /\ ~rs[nodeID][idx].Enabled
         [] OTHER -> /\ idx = 0
                     /\ nodeID \in DOMAIN rs => Len(rs[nodeID]) > 0

(***************************************************************************)
(* C11: a successful EnableRule, DisableRule or DeleteRule appends exactly *)
(* one notification of its kind, carrying the rule, to a queue of the      *)
(* node's session and to no other queue, and in the step in which the call *)
(* returns nil the store shows the rule enabled, disabled or removed (and  *)
(* no empty list is left under the node's key), also while another         *)
(* mutation or a Subscribe of the node runs.                               *)
(***************************************************************************)
C11_SuccessfulMutationTakesEffect ==
    [][\A m \in Mutators :
         /\ Enqueues(m) =>
               LET s == mut[m].sess
                   n == mut[m].notif[1]
               IN /\ sessObj[s].nodeID = mut[m].nodeID
                  /\ sessObj'[s].buf = Append(sessObj[s].buf, n)
                  /\ \A i \in 1 .. Len(sessObj) : i # s => sessObj'[i] = sessObj[i]
                  /\ n.Type = mut[m].kind
                  /\ n.ClientName = mut[m].nodeID
                  /\ Len(n.Rules) = 1
                  /\ n.Rules[1].Name = mut[m].ruleName
         /\ MutSucceeds(m) =>
               /\ mut[m].pc = "apply"
               /\ ShowsEffect(rules', mut[m].kind, mut[m].nodeID, mut[m].ruleName)]_vars

(***************************************************************************)
(* Vocabulary of the claims about dispatch                                 *)
(***************************************************************************)
IsPrefix(a, b) == Len(a) <= Len(b) /\ \A i \in 1 .. Len(a) : a[i] = b[i]

NoRepeats(a) == \A i \in 1 .. Len(a), j \in 1 .. Len(a) : a[i] = a[j] => i = j

\* session i was the node's registered session when a later registration
\* took its place
Replaced(objs, i) == objs[i].replaced

(***************************************************************************)
(* C12: for every session, the notifications its dispatch goroutine has    *)
(* forwarded to the stream are, in order, a prefix of the notifications    *)
(* Send has put on that session's queue, and none was forwarded twice.     *)
(***************************************************************************)
C12_ForwardedIsPrefixOfAccepted ==
    \A i \in 1 .. Len(sessObj) :
        /\ IsPrefix(sessObj[i].forwarded, sessObj[i].accepted)
        /\ NoRepeats(sessObj[i].forwarded)

\* a dispatch goroutine has forwarded two of the three notifications its
\* session accepted
C12_Witness ==
    \E i \in 1 .. Len(sessObj) :
        /\ Len(sessObj[i].forwarded) = 2
        /\ Len(sessObj[i].accepted) = 3

\* the dispatch goroutine of stream k returns in this step
DispatchExits(k) == streams[k].dpc # "exited" /\ streams'[k].dpc = "exited"

(***************************************************************************)
(* C13: once the session of a Notifications stream has been replaced by a  *)
(* later registration for its node, the stream's dispatch goroutine        *)
(* eventually returns (unless the server process has died), and when it    *)
(* returns it reports a nil error; this also when the replacement happens  *)
(* before the goroutine has evaluated its range expression.                *)
(***************************************************************************)
C13_ReplacedDispatchTerminates ==
    /\ \A k \in Streams :
          (streams[k].sess # 0 /\ Replaced(sessObj, streams[k].sess))
             ~> (streams[k].dpc = "exited" \/ crashed)
    /\ [][\A k \in Streams :
            (DispatchExits(k) /\ Replaced(sessObj, streams[k].sess))
               => streams'[k].sendErr = <<NoErr>>]_vars

\* the session registered last for the node
NewestSession(objs, nodeID) ==
    CHOOSE i \in 1 .. Len(objs) :
        /\ objs[i].nodeID = nodeID
        /\ \A j \in (i + 1) .. Len(objs) : objs[j].nodeID # nodeID

\* some session of the node has been replaced
HasReplaced(objs, nodeID) ==
    \E i \in 1 .. Len(objs) : objs[i].nodeID = nodeID /\ Replaced(objs, i)

\* no send is accepted on a replaced session's queue
ReplacedAcceptsNothing ==
    \A i \in 1 .. Len(sessObj) :
        Replaced(sessObj, i) => sessObj'[i].accepted = sessObj[i].accepted

\* what a replaced session's stream was handed had been accepted before
ReplacedForwardsOnlyAccepted ==
    \A i \in 1 .. Len(sessObj) :
        Replaced(sessObj, i) => IsPrefix(sessObj[i].forwarded, sessObj[i].accepted)

(***************************************************************************)
(* C14: once a session of a node has been replaced by a newer              *)
(* registration, no send is accepted on the replaced session's queue, so   *)
(* its stream is handed nothing that was accepted after the replacement,   *)
(* and every notification Send accepts for the node from then on is put on *)
(* the queue of the session registered last for the node.                  *)
(***************************************************************************)
C14_AcceptedOnlyOnNewestSession ==
    /\ [][ReplacedAcceptsNothing]_vars
    /\ []ReplacedForwardsOnlyAccepted
    /\ [][\A m \in Mutators :
            (Enqueues(m) /\ HasReplaced(sessObj, mut[m].nodeID))
               => mut[m].sess = NewestSession(sessObj, mut[m].nodeID)]_vars

(***************************************************************************)
(* Vocabulary of the claim about the store's copies                        *)
(***************************************************************************)
RECURSIVE Deep(_, _)

\* the value of a slice or map: its elements with the values of what they hold
Deep(h, a) ==
    IF a = 0 THEN <<>>
    ELSE [i \in 1 .. Len(h[a]) |-> [val |-> h[a][i].val, kid |-> Deep(h, h[a][i].kid)]]

\* the value of the live store
LiveValue(h, lv) ==
    [Nodes |-> Deep(h, lv.Nodes), Rules |-> Deep(h, lv.Rules),
     Stats |-> [val |-> lv.Stats.val, kid |-> Deep(h, lv.Stats.kid)],
     Prompts |-> Deep(h, lv.Prompts)]

\* the value of what a caller holds
HeldValue(h, value) == [r \in value.roots |-> Deep(h, r)]

MergedFields == {"Name", "Address", "Version", "Status", "Message"}

(***************************************************************************)
(* C18: an UpsertNode for an ID that is already stored keeps one entry for *)
(* that ID; every one of Name, Address, Version, Status and Message that   *)
(* the call leaves empty keeps its stored value, so no non-empty value is  *)
(* ever blanked; and FirewallEnabled, once true, stays true.               *)
(***************************************************************************)
C18_UpsertNeverBlanks ==
    [][probe'.op = "UpsertNode" =>
         LET node == probe'.arg
         IN  \A i \in 1 .. Len(nodes) :
                nodes[i].ID = node.ID =>
                   /\ Len(nodes') = Len(nodes)
                   /\ \A f \in MergedFields :
                         /\ node[f] = "" => nodes'[i][f] = nodes[i][f]
                         /\ nodes[i][f] # "" => nodes'[i][f] # ""
                   /\ nodes[i].FirewallEnabled => nodes'[i].FirewallEnabled]_vars

\* the last call carried only the ID, and the stored node still has every
\* field set and the firewall flag true
C18_Witness ==
    /\ probe # <<>>
    /\ probe.op = "UpsertNode"
    /\ \A f \in MergedFields : probe.arg[f] = ""
    /\ ~probe.arg.FirewallEnabled
    /\ Len(nodes) = 1
    /\ \A f \in MergedFields : nodes[1][f] # ""
    /\ nodes[1].FirewallEnabled

(***************************************************************************)
(* C19: after N AddAlert calls the alert list holds the min(N, 100) alerts *)
(* added last, the newest first: its i-th entry is the alert of call       *)
(* N - i + 1, and every older alert is gone.                               *)
(***************************************************************************)
C19_AlertsAreNewestFirst ==
    /\ Len(alerts) = IF alertsAdded < maxAlerts THEN alertsAdded ELSE maxAlerts
    /\ \A i \in 1 .. Len(alerts) : alerts[i] = NthAlert(alertsAdded - i + 1)

\* more alerts were added than the list holds, and the oldest kept one is
\* the alert added 99 calls before the newest
C19_Witness ==
    /\ alertsAdded > maxAlerts + 1
    /\ Len(alerts) = maxAlerts
    /\ alerts[1] = NthAlert(alertsAdded)
    /\ alerts[maxAlerts] = NthAlert(alertsAdded - maxAlerts + 1)

\* the operand a rule carries for a target
OperandOf(target) ==
    CASE target = PromptTargetProcessPath -> operandProcessPath
      [] target = PromptTargetProcessCmd -> operandProcessCmd
      [] target = PromptTargetProcessID -> operandProcessID
      [] target = PromptTargetUserID -> operandUserID
      [] target = PromptTargetDestinationIP -> operandDestIP
      [] target = PromptTargetDestinationHost -> operandDestHost
      [] target = PromptTargetDestinationPort -> operandDestPort
      [] OTHER -> ""

\* the target's backing field on the connection is empty or zero
BackingEmpty(conn, target) ==
    CASE target = PromptTargetProcessID -> conn.ProcessID = 0
      [] target = PromptTargetUserID -> conn.UserID = 0
      [] OTHER -> ~Populated(conn, target)

\* the result is the leaf operator of the requested target over its own field
OwnOperator(result, conn, target) ==
    /\ result.err = NoErr
    /\ result.op = <<simpleOperator(OperandOf(target), BackingValue(conn, target))>>

\* the result of an operatorForTarget call is as C20 says
OperatorAsClaimed(result, conn, target) ==
    IF BackingEmpty(conn, target)
    THEN result.err # NoErr /\ result.op = <<>>
    ELSE OwnOperator(result, conn, target)

(***************************************************************************)
(* C20: for every target and every connection, operatorForTarget fails     *)
(* when the target's backing field is empty or zero; otherwise it returns  *)
(* the simple operator whose operand is the target's own and whose data is *)
(* the value of the backing field, never the operator of another target.   *)
(***************************************************************************)
C20_OperatorForRequestedTarget ==
    (probe # <<>> /\ probe.op = "operatorForTarget" /\ probe.out # <<>>) =>
        OperatorAsClaimed(probe.out[1], probe.arg.conn, probe.arg.target)

\* the part of C20 that the code keeps: whenever it returns an operator for
\* a path, host, address or port target, or for a command line that is not
\* blank, that operator is the requested target's own
OperatorOwnWhenFieldSet ==
    (probe # <<>> /\ probe.op = "operatorForTarget" /\ probe.out # <<>>) =>
        LET conn == probe.arg.conn
            target == probe.arg.target
        IN  (target \notin {PromptTargetProcessID, PromptTargetUserID}) =>
               IF Populated(conn, target)
               THEN OwnOperator(probe.out[1], conn, target)
               ELSE target # PromptTargetProcessCmd => probe.out[1].err # NoErr

\* subscription i has a wake-up pending: a signal in its channel, or one its
\* consumer has received and not yet answered by reading the snapshot
WakeUpPending(i) == subObj[i].events = 1 \/ watch[i].pc = "woken"

(***************************************************************************)
(* C16: whenever the store's state differs from the state a registered     *)
(* subscription's consumer has (from Subscribe or from its last            *)
(* Snapshot()), that subscription has a wake-up pending; this holds after  *)
(* every mutator, UpdateNodeStatus for a new node ID included.             *)
(***************************************************************************)
C16_ChangeLeavesWakeUpPending ==
    \A i \in subs : watch[i].known # Snapshot => WakeUpPending(i)

\* Close has returned for subscription i
Closed(w, i) == w[i].closes > 0

(***************************************************************************)
(* C17: no step sends on a closed channel or closes a channel twice        *)
(* (either panics); once Close has returned for a subscription, however    *)
(* often it is called and whatever mutators run meanwhile, its events      *)
(* channel is closed and it is no longer registered; and no step puts a    *)
(* signal into a closed channel.                                           *)
(***************************************************************************)
C17_CloseIsSafe ==
    [][/\ ~crashed'
       /\ \A i \in DOMAIN subObj' :
             Closed(watch', i) => subObj'[i].closed /\ i \notin subs'
       /\ \A i \in DOMAIN subObj :
             subObj[i].closed => subObj'[i].events <= subObj[i].events]_vars

\* a subscription closed twice, with a notification that ran after it was
\* closed and left nothing in its channel, while another subscription that
\* is still registered got the signal
C17_Witness ==
    \E i \in DOMAIN subObj :
        /\ watch[i].closes = MaxCloses
        /\ subObj[i].late
        /\ subObj[i].events = 0
        /\ watch[i].pc = "ended"
        /\ \E j \in subs : subObj[j].events = 1

ValidActions == {PromptActionAllow, PromptActionDeny, PromptActionReject}
ValidDurations == {PromptDurationOnce, PromptDurationUntilRestart, PromptDurationAlways}

\* a buildRuleFromDecision call that returned a rule
BuiltRule == probe # <<>> /\ probe.op = "buildRuleFromDecision"
             /\ probe.out # <<>> /\ probe.out[1].err = NoErr

(***************************************************************************)
(* C21: every rule built from a decision has an Action among allow, deny,  *)
(* reject and a Duration among once, until restart, always: a valid value  *)
(* of the decision is kept, every other action becomes deny and every      *)
(* other duration becomes once.                                            *)
(***************************************************************************)
C21_RuleActionAndDurationNormalised ==
    BuiltRule =>
        LET rule == probe.out[1].rule[1]
            decision == probe.arg.decision
        IN  /\ rule.Action \in ValidActions
            /\ rule.Duration \in ValidDurations
            /\ rule.Action = IF decision.Action \in ValidActions
                             THEN decision.Action ELSE PromptActionDeny
            /\ rule.Duration = IF decision.Duration \in ValidDurations
                               THEN decision.Duration ELSE PromptDurationOnce

\* a rule built from an unknown action and an unknown duration
C21_Witness ==
    /\ BuiltRule
    /\ probe.arg.decision.Action = "ask"
    /\ probe.arg.decision.Duration = "forever"
    /\ probe.out[1].rule[1].Action = PromptActionDeny
    /\ probe.out[1].rule[1].Duration = PromptDurationOnce

\* the order in which bestAvailableTarget is to prefer the targets
TargetPriority ==
    <<PromptTargetProcessPath, PromptTargetProcessCmd, PromptTargetDestinationHost,
      PromptTargetDestinationIP, PromptTargetDestinationPort, PromptTargetProcessID>>

\* the connection field behind a target is non-empty or non-zero; the process
\* id counts as always set
FieldSet(conn, target) ==
    CASE target = PromptTargetProcessPath -> conn.ProcessPath # EmptyStr
      [] target = PromptTargetProcessCmd -> conn.ProcessArgs # <<>>
      [] target = PromptTargetDestinationHost -> conn.DstHost # EmptyStr
      [] target = PromptTargetDestinationIP -> conn.DstIP # EmptyStr
      [] target = PromptTargetDestinationPort -> conn.DstPort # 0
      [] OTHER -> target = PromptTargetProcessID

BestTargetCalled == probe # <<>> /\ probe.op = "bestAvailableTarget" /\ probe.out # <<>>

(***************************************************************************)
(* C22: bestAvailableTarget returns the first target, in the order process *)
(* path, process command, destination host, destination ip, destination    *)
(* port, process id, whose field on the connection is set; so it returns   *)
(* process id exactly when the five other fields are all empty or zero.    *)
(***************************************************************************)
C22_BestTargetIsFirstSet ==
    BestTargetCalled =>
        LET conn == probe.arg.conn
            first == CHOOSE i \in 1 .. Len(TargetPriority) :
                        /\ FieldSet(conn, TargetPriority[i])
                        /\ \A j \in 1 .. (i - 1) : ~FieldSet(conn, TargetPriority[j])
        IN  /\ probe.out[1] = TargetPriority[first]
            /\ probe.out[1] = PromptTargetProcessID <=>
                  \A j \in 1 .. 5 : ~FieldSet(conn, TargetPriority[j])

\* no path, no arguments and no host, but an address and a port: the
\* address is chosen
C22_Witness ==
    /\ BestTargetCalled
    /\ probe.arg.conn.ProcessPath = EmptyStr
    /\ probe.arg.conn.ProcessArgs = <<>>
    /\ probe.arg.conn.DstHost = EmptyStr
    /\ probe.arg.conn.DstIP # EmptyStr
    /\ probe.arg.conn.DstPort # 0
    /\ probe.out[1] = PromptTargetDestinationIP

TimeoutDecided == probe # <<>> /\ probe.op = "defaultPromptDecision" /\ probe.out # <<>>

\* the target C30 names for a connection and a configured default target
TimeoutTarget(conn, configured) ==
    IF Populated(conn, configured) THEN configured ELSE bestAvailableTarget(conn)

(***************************************************************************)
(* C30: the rule of the timeout path targets Settings.DefaultPromptTarget  *)
(* when the connection has a value for that target, and                    *)
(* bestAvailableTarget(connection) otherwise, an empty or unknown          *)
(* configured target included: whenever the connection has a value for the *)
(* target so named, a rule is returned and its operator is that target's   *)
(* operand over that value, and no returned rule has another target.       *)
(***************************************************************************)
C30_TimeoutTargetFallsBack ==
    TimeoutDecided =>
        LET conn == probe.arg.conn
            target == TimeoutTarget(conn, probe.arg.settings.DefaultPromptTarget)
            built == probe.out[1].built
        IN  /\ Populated(conn, target) => built.err = NoErr
            /\ built.err = NoErr =>
                  built.rule[1].Operator =
                     simpleOperator(OperandOf(target), BackingValue(conn, target))

\* the configured host is missing on the connection and the rule falls back
\* to the address
C30_Witness ==
    /\ TimeoutDecided
    /\ probe.arg.settings.DefaultPromptTarget = PromptTargetDestinationHost
    /\ probe.arg.conn.DstHost = EmptyStr
    /\ probe.arg.conn.ProcessPath = EmptyStr
    /\ probe.arg.conn.ProcessArgs = <<>>
    /\ probe.out[1].built.err = NoErr
    /\ probe.out[1].built.rule[1].Operator.Operand = operandDestIP

\* the wait that Settings.PromptTimeout stands for: the default when it is unset
ConfiguredTimeout(st) ==
    IF st.PromptTimeout <= 0 THEN DefaultPromptTimeout ELSE st.PromptTimeout

(***************************************************************************)
(* C28: while an AskRule call waits, its timer fires and its stored prompt *)
(* expires Settings.PromptTimeout after the request arrived (the settings  *)
(* do not change during a behaviour, so they are those of the arrival).    *)
(***************************************************************************)
C28_WaitFollowsPromptTimeout ==
    \A c \in AskCalls :
        ask[c].pc = "waiting" =>
            /\ ask[c].timerAt = ask[c].prompt.RequestedAt + ConfiguredTimeout(settings)
            /\ \A i \in 1 .. Len(prompts) :
                  prompts[i].ID = ask[c].prompt.ID =>
                     prompts[i].ExpiresAt =
                        prompts[i].RequestedAt + ConfiguredTimeout(settings)

\* request c has returned a rule through the timeout path
TimedOutWithRule(c) ==
    Returned(c) /\ ask[c].via = "timer" /\ ask[c].err = NoErr /\ ask[c].rule # <<>>

(***************************************************************************)
(* C29: once AskRule has returned a rule through the timeout path, that    *)
(* rule is in the rule list of the requesting node in the store, and when  *)
(* Stats tracks that node Stats.Rules is the length of that list.          *)
(***************************************************************************)
C29_TimeoutRuleIsStored ==
    \A c \in AskCalls :
        TimedOutWithRule(c) =>
            LET nodeID == ask[c].prompt.NodeID
                list == RulesOf(rules, nodeID)
            IN  /\ \E i \in 1 .. Len(list) :
                      list[i] = convertRule(ask[c].rule[1], nodeID)
                /\ stats.NodeID = nodeID => stats.Rules = Len(list)

\* the status of the node in the store
StatusOf(ns, id) == ns[indexOfLocked(ns, id)].Status

\* the session the k-th Notifications call registered is in Server.sessions
Registered(ss, st, k) ==
    /\ st[k].nodeID \in DOMAIN ss
    /\ ss[st[k].nodeID] = st[k].sess

\* C26: When a Notifications stream ends, the node is marked disconnected on a
\* clean close and error on a transport error, in Recv or in Send, that error
\* being what the call returns; and once the call has gone through
\* unregisterSession, on whichever exit path, the session it registered is
\* not in the registry.
C26_StreamEndMarksNodeAndUnregisters ==
    [][\A k \in TwoStreams :
         /\ NotificationsRecv(k, "eof") =>
               /\ StatusOf(nodes', streams[k].nodeID) = NodeStatusDisconnected
               /\ streams'[k].ret = <<NoErr>>
         /\ NotificationsRecv(k, "error") =>
               /\ StatusOf(nodes', streams[k].nodeID) = NodeStatusError
               /\ streams'[k].ret = << <<"recv failed">> >>
         /\ (NotificationsPoll(k) /\ streams[k].sendErr \notin {<<>>, <<NoErr>>}) =>
               /\ StatusOf(nodes', streams[k].nodeID) = NodeStatusError
               /\ streams'[k].ret = streams[k].sendErr
         /\ streams'[k].ret # <<>> => streams'[k].pc \in {"unregister", "closing", "done"}
         /\ streams'[k].pc \in {"closing", "done"} => ~Registered(sessions', streams', k)
      ]_vars

\* one call that returned nil after it had been replaced, the other ended by
\* a failed Send, both back from unregisterSession
C26_Witness ==
    /\ streams[1].pc = "done" /\ streams[1].ret = <<NoErr>>
    /\ sessObj[streams[1].sess].replaced
    /\ streams[2].pc = "done" /\ streams[2].ret = << <<"send failed">> >>
    /\ sessions = [n \in {} |-> 0]
    /\ StatusOf(nodes, "n1") = NodeStatusError

\* the dispatch goroutine of the k-th call has reported a failed Send while
\* the call is in its loop
SendFailed(k) ==
    /\ streams[k].sendErr \notin {<<>>, <<NoErr>>}
    /\ streams[k].pc \in {"polling", "recv"}

\* the k-th call has returned the error of the failed Send, the node in
\* status error when it did
ReturnedSendError(k) ==
    /\ streams[k].pc = "done"
    /\ streams[k].ret = << <<"send failed">> >>

(***************************************************************************)
(* C27: If the dispatch goroutine's Send of a notification fails, the      *)
(* Notifications call that owns it eventually marks the node error and     *)
(* returns that error. (That the step which takes the error from sendErr   *)
(* marks the node error is part of C26.)                                   *)
(***************************************************************************)
C27_SendFailureEndsTheCall ==
    \A k \in TwoStreams : SendFailed(k) ~> ReturnedSendError(k)

\* the ids of the prompts RequestPrompt issues
IssuedIDs == {PromptIDOf(c) : c \in AskCalls}

(***************************************************************************)
(* C23: After Pause(id) succeeds and until Resume(id) is called, the       *)
(* prompt cannot time out: its timer is stopped and the timeout step does  *)
(* not happen, and its store entry shows Paused = true with Remaining =    *)
(* ExpiresAt minus the time of the pause, which is greater than zero when  *)
(* the prompt had not yet expired; the entry stays so until Resume, or     *)
(* until Resolve or the caller's cancellation ends the wait.               *)
(***************************************************************************)
C23_PausedPromptCannotTimeOut ==
    [][\A id \in IssuedIDs :
         /\ (PausePrompt(id) /\ id \in DOMAIN pending /\ ~IsPaused(id)) =>
               /\ PromptOf(prompts', id).Paused
               /\ PromptOf(prompts', id).Remaining = PromptOf(prompts, id).ExpiresAt - now
               /\ PromptOf(prompts', id).ExpiresAt = PromptOf(prompts, id).ExpiresAt
               /\ now < PromptOf(prompts, id).ExpiresAt =>
                     PromptOf(prompts', id).Remaining > 0
         /\ IsPaused(id) =>
               /\ ~ask[pending[id]].timerOn
               /\ ~TimerFires(pending[id])
               /\ IF IsPaused(id)'
                  THEN PromptOf(prompts', id) = PromptOf(prompts, id)
                  ELSE \/ ResumePrompt(id)
                       \/ \E via \in {"response", "ctx"} : WaitEnds(pending[id], via)
      ]_vars

\* a prompt still paused, with time left, after the instant at which it was to
\* expire
C23_Witness ==
    /\ IsPaused(PromptIDOf(1))
    /\ PromptOf(prompts, PromptIDOf(1)).Remaining > 0
    /\ now > PromptOf(prompts, PromptIDOf(1)).ExpiresAt
    /\ ask[1].pc = "waiting"

(***************************************************************************)
(* C24: After Resume(id) on a paused prompt, Paused is false, Remaining is *)
(* 0, ExpiresAt is the time of the resume plus the Remaining saved at the  *)
(* pause, and the timer fires at that instant; whenever a prompt times     *)
(* out, after any number of pause/resume cycles, the time it has waited    *)
(* with its clock running equals the timeout it was given.                 *)
(***************************************************************************)
C24_ResumeConservesTheWait ==
    [][/\ \A id \in IssuedIDs :
            (ResumePrompt(id) /\ IsPaused(id)) =>
               /\ ~PromptOf(prompts', id).Paused
               /\ PromptOf(prompts', id).Remaining = 0
               /\ PromptOf(prompts', id).ExpiresAt =
                     now + PromptOf(prompts, id).Remaining
               /\ ask'[pending[id]].timerOn
               /\ ask'[pending[id]].timerAt = PromptOf(prompts', id).ExpiresAt
       /\ \A c \in AskCalls :
            TimerFires(c) =>
               /\ now = ask[c].timerAt
               /\ ask[c].waited = ask[c].timeout
      ]_vars

\* a prompt that timed out after two pause/resume cycles, later than it would
\* have without them
C24_Witness ==
    /\ ask[1].pc = "done"
    /\ ask[1].via = "timer"
    /\ ask[1].cycles = MaxCycles
    /\ ask[1].waited = ask[1].timeout
    /\ now > StartTime + ask[1].timeout

Usable(so, sess) == ~so[sess].closed /\ ~so[sess].sendNil

(***************************************************************************)
(* C31: unregisterSession(node, s) removes the registry entry only if the  *)
(* entry is s: when a newer session has been registered for the node, the  *)
(* late unregister of s leaves the registry as it is and leaves the newer  *)
(* session's queue open; and a session that is in the registry is always   *)
(* open, so sendNotification can use it.                                   *)
(***************************************************************************)
C31_StaleUnregisterKeepsNewerSession ==
    [][\A k \in TwoStreams :
         /\ (UnregisterLocked(k) /\ ~Registered(sessions, streams, k)) =>
               sessions' = sessions
         /\ (UnregisterLocked(k) /\ Registered(sessions, streams, k)) =>
               streams[k].nodeID \notin DOMAIN sessions'
         /\ UnregisterClose(k) =>
               \A sess \in 1 .. Len(sessObj) :
                   sess # streams[k].sess => sessObj'[sess] = sessObj[sess]
         /\ \A n \in DOMAIN sessions' : Usable(sessObj', sessions'[n])
      ]_vars

\* the first call is back from unregisterSession after the second replaced
\* its session; the second's session is registered and has taken a
\* notification
C31_Witness ==
    /\ streams[1].pc = "done"
    /\ sessObj[streams[1].sess].replaced
    /\ streams[2].pc \in {"polling", "recv"}
    /\ Registered(sessions, streams, 2)
    /\ Usable(sessObj, streams[2].sess)
    /\ Len(sessObj[streams[2].sess].accepted) > 0
    /\ Len(sessObj[streams[1].sess].accepted) = 0

\* the r-th ResolvePrompt call returns an error in this step before it has
\* touched the store: the id is empty or unknown, or the rule cannot be built
FailsEarly(r) ==
    /\ res[r].pc \in {"idle", "found"}
    /\ res'[r].pc = "done"
    /\ res'[r].err # NoErr

(***************************************************************************)
(* C32: A ResolvePrompt that fails because the prompt id is empty or       *)
(* unknown, or because the chosen target's backing field is missing on the *)
(* connection, adds no rule and leaves the store, the registry and every   *)
(* waiting AskRule (its response slot empty, its timer as it was) exactly  *)
(* as they were; so a later valid ResolvePrompt for that prompt can still  *)
(* succeed (the witness).                                                  *)
(***************************************************************************)
C32_FailedResolveChangesNothing ==
    [][\A r \in ResolveCalls :
         FailsEarly(r) => UNCHANGED <<storeVars, pending, ask>>
      ]_vars

\* the first ResolvePrompt failed on the target of its decision, the second,
\* for the same prompt, succeeded: its rule is the one the waiting AskRule
\* returned
C32_Witness ==
    /\ res[1].pc = "done"
    /\ res[1].decision.Target = "dest.ip"
    /\ res[1].err \notin {NoErr, <<"prompt id required">>, <<"prompt not found">>,
                          <<"prompt already resolved">>}
    /\ res[2].pc = "done"
    /\ res[2].decision.PromptID = res[1].decision.PromptID
    /\ res[2].err = NoErr
    /\ \E c \in AskCalls :
          /\ ask[c].pc = "done"
          /\ ask[c].via = "response"
          /\ ask[c].rule = res[2].rule

(***************************************************************************)
(* C33: The auto-clear that SetError(e1) scheduled clears LastError only   *)
(* if the error displayed when it runs is the one issued at e1's instant;  *)
(* otherwise it changes nothing.  So an error that replaced e1 leaves the  *)
(* display only through a newer SetError, through ClearError, or once its  *)
(* own TTL has elapsed.                                                    *)
(***************************************************************************)
C33_ExpiryClearsOnlyItsOwnError ==
    [][/\ \A t \in 0 .. MaxClock :
            ExpireError(t) =>
               IF lastError # EmptyStr /\ lastErrorAt = t
               THEN lastError' = EmptyStr /\ lastErrorAt' = ZeroTime
               ELSE UNCHANGED <<lastError, lastErrorAt>>
       /\ (lastError # EmptyStr /\ <<lastError, lastErrorAt>>' # <<lastError, lastErrorAt>>) =>
            \/ \E msg \in ErrMessages : SetError(msg)
            \/ ClearError
            \/ now >= lastErrorAt + errorDisplayTTL
      ]_vars

\* e2 replaced an error issued earlier, the expireError of that error has
\* run since, and e2 is still displayed with its own expireError pending
C33_Witness ==
    /\ probe # <<>>
    /\ probe.replaced # ZeroTime
    /\ probe.replaced < lastErrorAt
    /\ probe.replaced \notin errTimers
    /\ lastError = <<"e2">>
    /\ lastErrorAt \in errTimers

\* this step is a call of SetRules, AddRule, UpdateRule or RemoveRule
RuleCalled == probe' # probe

\* after the call the counter is in sync with the list of the call's node
CounterInSync ==
    IF stats'.NodeID = probe'.nodeID
    THEN stats'.Rules = Len(RulesOf(rules', probe'.nodeID))
    ELSE stats' = stats

(***************************************************************************)
(* C34 as amended: After SetRules or AddRule on a node n with a non-empty  *)
(* id, or an UpdateRule or RemoveRule on n that found the rule (returned   *)
(* true): if Stats.NodeID = n then Stats.Rules equals the number of rules  *)
(* stored for n, and if Stats.NodeID differs from n, Stats is unchanged.   *)
(* After a call with the empty node id, or an UpdateRule or RemoveRule     *)
(* that found no such rule, Stats is unchanged.                            *)
(***************************************************************************)
C34_CounterFollowsRuleMutations ==
    [][RuleCalled =>
         IF probe'.ok /\ probe'.nodeID # ""
         THEN CounterInSync
         ELSE stats' = stats
      ]_vars

\* the last rule of the tracked node was removed: the counter is 0 and the
\* node has no entry in the map
C34_Witness ==
    /\ probe # <<>>
    /\ probe.op = "RemoveRule"
    /\ probe.ok
    /\ probe.nodeID = "n1"
    /\ stats = [NodeID |-> "n1", Rules |-> 0]
    /\ "n1" \notin DOMAIN rules
    /\ "n2" \in DOMAIN rules

(***************************************************************************)
(* C34 as stated: After SetRules, AddRule, UpdateRule or RemoveRule on     *)
(* node n: if Stats.NodeID = n then Stats.Rules equals the number of rules *)
(* stored for n, and if Stats.NodeID differs from n, Stats is unchanged.   *)
(***************************************************************************)
C34_CounterInSyncAfterEveryCall ==
    [][RuleCalled => CounterInSync]_vars

\* request c has been given its prompt ID
Asked(c) == ask[c].pc # "idle"

(***************************************************************************)
(* C35: any two AskRule requests, two of one node that read the same clock *)
(* value included, get different prompt IDs, so that no two prompts in the *)
(* store share an ID.                                                      *)
(***************************************************************************)
C35_PromptIDsAreUnique ==
    /\ \A c, k \in AskCalls :
          (c # k /\ Asked(c) /\ Asked(k)) => ask[c].prompt.ID # ask[k].prompt.ID
    /\ \A i, j \in 1 .. Len(prompts) : i # j => prompts[i].ID # prompts[j].ID

(***************************************************************************)
(* C36: if ResolvePrompt returns success for a prompt, the AskRule call    *)
(* waiting on that prompt returns exactly the rule that ResolvePrompt      *)
(* added to the store, in every interleaving of the resolve with the timer *)
(* firing or the caller cancelling.  Stated for the state in which both    *)
(* calls have returned, of a request whose prompt ID no other request got. *)
(***************************************************************************)
C36_SuccessfulResolveIsReturned ==
    \A r \in ResolveCalls :
        (Succeeded(r) /\ Returned(res[r].req) /\ SoleUserOfID(res[r].req)) =>
            /\ ask[res[r].req].err = NoErr
            /\ ask[res[r].req].rule = res[r].rule

(***************************************************************************)
(* C37: in every interleaving of Send with RegisterSession and             *)
(* UnregisterSession for the same node, no notification is sent on a queue *)
(* that has been closed and no queue is closed twice: a rule mutation      *)
(* racing a reconnect or a disconnect can fail but cannot crash the        *)
(* server.                                                                 *)
(***************************************************************************)
C37_RegistryRacesNeverPanic ==
    /\ ~crashed
    /\ \A m \in Mutators : mut[m].pc # "panicked"

\* both callers have returned nil, one from EnableRule and one from
\* DisableRule, for the same rule of the same node
ToggledBothWays ==
    /\ \A m \in Mutators : mut[m].pc = "done" /\ mut[m].err = NoErr
    /\ {mut[m].kind : m \in Mutators} = {ActionEnableRule, ActionDisableRule}
    /\ \A m \in Mutators : mut[m].nodeID = "n1" /\ mut[m].ruleName = "ssh"

\* the notification accepted last by the queue of n1's session
LastEnqueued == LET q == sessObj[sessions["n1"]].buf IN q[Len(q)]

(***************************************************************************)
(* C38: when EnableRule and DisableRule for the same rule run concurrently *)
(* and both succeed, the rule's Enabled flag in the store afterwards       *)
(* equals the effect of whichever of the two notifications was enqueued    *)
(* last on the node's session.                                             *)
(***************************************************************************)
C38_StoreFollowsLastEnqueued ==
    ToggledBothWays =>
        LET idx == lookupRule("n1", "ssh")
        IN /\ idx # 0
           /\ rules["n1"][idx].Enabled = (LastEnqueued.Type = ActionEnableRule)

\* the k-th Notifications call leaves its loop in this step
StreamEnds(k) ==
    /\ streams[k].pc \in {"polling", "recv"}
    /\ streams'[k].pc = "unregister"

\* the session of the k-th call has been replaced and a newer session of the
\* node is in the registry
NewerSessionRegistered(k) ==
    /\ Replaced(sessObj, streams[k].sess)
    /\ streams[k].nodeID \in DOMAIN sessions
    /\ sessions[streams[k].nodeID] > streams[k].sess

(***************************************************************************)
(* C39: the end of a Notifications stream whose session has already been   *)
(* replaced by a newer registration does not mark the node disconnected or *)
(* error while the newer session is still registered: the step in which    *)
(* such a call leaves its loop leaves the node's status as it was.         *)
(***************************************************************************)
C39_ReplacedStreamEndKeepsStatus ==
    [][\A k \in TwoStreams :
         (StreamEnds(k) /\ NewerSessionRegistered(k)) =>
             StatusOf(nodes', streams[k].nodeID) = StatusOf(nodes, streams[k].nodeID)
      ]_vars

(***************************************************************************)
(* C40: for every connection and every target kind,                        *)
(* targetAvailable(connection, target) is true exactly when                *)
(* operatorForTarget(connection, target) succeeds, in particular for the   *)
(* process-command target when ProcessArgs is present but blank.           *)
(***************************************************************************)
C40_AvailableIffOperatorSucceeds ==
    (probe.avail # <<>> /\ probe.out # <<>>) =>
        (probe.avail[1] <=> probe.out[1].err = NoErr)

=========================================================================
